---- MODULE Spec2Model ----
(***************************************************************************)
(* A model of the muon scenario engine (src/src/runner.rs): the scenario   *)
(* driver `run`, the loop controller `execute_step_with_loop` and the step *)
(* executor `execute_step_once`, together with the helpers they call.      *)
(*                                                                         *)
(* Representation.                                                         *)
(*   - A string is a sequence of tokens.  A token is one character or one  *)
(*     word that the model never takes apart ("steps", "current", "GET").  *)
(*   - A serde_json::Value is a pair <<tag, payload>> with tag              *)
(*     "null", "bool", "num", "str", "arr" or "obj".                       *)
(*   - Option<T> is a sequence of length 0 (None) or 1 (Some).             *)
(*   - A HashMap / serde_json::Map is a function from keys to values.      *)
(***************************************************************************)
EXTENDS Integers, Sequences, FiniteSets, TLC

(***************************************************************************)
(* Bounds of the model                                                     *)
(***************************************************************************)
MaxSteps == 2
MaxCount == 2

(***************************************************************************)
(* Option, maps, serde_json::Value                                         *)
(***************************************************************************)
None == <<>>
Some(x) == <<x>>
IsSome(o) == Len(o) = 1
IsNone(o) == Len(o) = 0
Unwrap(o) == o[1]

EmptyMap == <<>>
MapInsert(m, k, v) == [x \in DOMAIN m \cup {k} |-> IF x = k THEN v ELSE m[x]]
MapGet(m, k) == IF k \in DOMAIN m THEN Some(m[k]) ELSE None
MapExtend(m, new) == [x \in DOMAIN m \cup DOMAIN new |-> IF x \in DOMAIN new THEN new[x] ELSE m[x]]

Null == <<"null", 0>>
Bool(b) == <<"bool", b>>
Num(n) == <<"num", n>>
Str(s) == <<"str", s>>
Arr(a) == <<"arr", a>>
Obj(m) == <<"obj", m>>
Tag(value) == value[1]
Val(value) == value[2]

(***************************************************************************)
(* Strings                                                                 *)
(***************************************************************************)
Digits == <<"0", "1", "2", "3", "4", "5", "6", "7", "8", "9">>
Lowers == <<"a", "b", "c", "d", "e", "f", "g", "h", "i", "j", "k", "l", "m",
            "n", "o", "p", "q", "r", "s", "t", "u", "v", "w", "x", "y", "z">>
Uppers == <<"A", "B", "C", "D", "E", "F", "G", "H", "I", "J", "K", "L", "M",
            "N", "O", "P", "Q", "R", "S", "T", "U", "V", "W", "X", "Y", "Z">>
Spaces == {" "}

IsDigit(c) == \E i \in 1..10 : Digits[i] = c
IsAsciiAlphanumeric(c) == (\E i \in 1..26 : Lowers[i] = c \/ Uppers[i] = c) \/ IsDigit(c)
IsWhitespace(c) == c \in Spaces

ToAsciiLowercase(c) ==
    IF \E i \in 1..26 : Uppers[i] = c THEN Lowers[CHOOSE i \in 1..26 : Uppers[i] = c] ELSE c

RECURSIVE NumStr(_)
NumStr(n) == IF n < 10 THEN <<Digits[n + 1]>> ELSE NumStr(n \div 10) \o <<Digits[(n % 10) + 1]>>

RECURSIVE ToLowercase(_)
ToLowercase(s) == IF s = <<>> THEN <<>> ELSE <<ToAsciiLowercase(Head(s))>> \o ToLowercase(Tail(s))

RECURSIVE TrimStart(_)
TrimStart(s) == IF s # <<>> /\ IsWhitespace(Head(s)) THEN TrimStart(Tail(s)) ELSE s

RECURSIVE TrimEnd(_)
TrimEnd(s) == IF s # <<>> /\ IsWhitespace(s[Len(s)]) THEN TrimEnd(SubSeq(s, 1, Len(s) - 1)) ELSE s

Trim(s) == TrimEnd(TrimStart(s))

StartsWith(s, p) == Len(p) <= Len(s) /\ SubSeq(s, 1, Len(p)) = p
Contains(s, p) == \E i \in 1..(Len(s) - Len(p) + 1) : SubSeq(s, i, i + Len(p) - 1) = p

RECURSIVE SplitDot(_)
SplitDot(s) ==
    IF \E i \in 1..Len(s) : s[i] = "."
    THEN LET i == CHOOSE j \in 1..Len(s) : s[j] = "." /\ \A k \in 1..(j - 1) : s[k] # "."
         IN  <<SubSeq(s, 1, i - 1)>> \o SplitDot(SubSeq(s, i + 1, Len(s)))
    ELSE <<s>>

RECURSIVE slugify_loop(_, _)
slugify_loop(name, slug) ==
    IF name = <<>> THEN slug
    ELSE LET ch == Head(name)
         IN  IF IsAsciiAlphanumeric(ch)
             THEN slugify_loop(Tail(name), Append(slug, ToAsciiLowercase(ch)))
             ELSE IF (IsWhitespace(ch) \/ ch \in {"-", "_"})
                      /\ ~(slug # <<>> /\ slug[Len(slug)] = "_")
                  THEN slugify_loop(Tail(name), Append(slug, "_"))
                  ELSE slugify_loop(Tail(name), slug)

RECURSIVE TrimMatchesStart(_, _)
TrimMatchesStart(s, c) == IF s # <<>> /\ Head(s) = c THEN TrimMatchesStart(Tail(s), c) ELSE s

RECURSIVE TrimMatchesEnd(_, _)
TrimMatchesEnd(s, c) ==
    IF s # <<>> /\ s[Len(s)] = c THEN TrimMatchesEnd(SubSeq(s, 1, Len(s) - 1), c) ELSE s

slugify(name) == TrimMatchesEnd(TrimMatchesStart(slugify_loop(name, <<>>), "_"), "_")

(***************************************************************************)
(* serde_json: text form of a value (Value::to_string) and parsing         *)
(***************************************************************************)
TokenOrder == <<" ", "\"", ",", "-", ".", "/", "0", "1", "2", "3", "4", "5", "6", "7", "8", "9",
                ":", ";", "A", "B", "E", "R", "T", "U", "[", "]", "_", "a", "b", "e", "f", "l",
                "r", "s", "t", "u", "{", "{{", "}", "}}">>

TokenRank(c) == IF \E i \in 1..Len(TokenOrder) : TokenOrder[i] = c
                THEN CHOOSE i \in 1..Len(TokenOrder) : TokenOrder[i] = c
                ELSE Len(TokenOrder) + 1

RECURSIVE StrLess(_, _)
StrLess(a, b) ==
    IF a = <<>> THEN b # <<>>
    ELSE IF b = <<>> THEN FALSE
    ELSE IF Head(a) = Head(b) THEN StrLess(Tail(a), Tail(b))
    ELSE IF TokenRank(Head(a)) = TokenRank(Head(b)) THEN Len(a) < Len(b)
    ELSE TokenRank(Head(a)) < TokenRank(Head(b))

MinKey(S) == CHOOSE k \in S : \A j \in S : j = k \/ StrLess(k, j) \/ ~StrLess(j, k)

RECURSIVE SortedKeys(_)
SortedKeys(S) == IF S = {} THEN <<>> ELSE LET k == MinKey(S) IN <<k>> \o SortedKeys(S \ {k})

RECURSIVE ValueToString(_)
RECURSIVE ArrToString(_)
RECURSIVE ObjToString(_, _)
ArrToString(a) ==
    IF a = <<>> THEN <<>>
    ELSE ValueToString(Head(a)) \o (IF Len(a) > 1 THEN <<",">> ELSE <<>>) \o ArrToString(Tail(a))
ObjToString(m, keys) ==
    IF keys = <<>> THEN <<>>
    ELSE <<"\"">> \o Head(keys) \o <<"\"", ":">> \o ValueToString(m[Head(keys)])
         \o (IF Len(keys) > 1 THEN <<",">> ELSE <<>>) \o ObjToString(m, Tail(keys))
ValueToString(val) ==
    CASE Tag(val) = "null" -> <<"null">>
      [] Tag(val) = "bool" -> IF Val(val) THEN <<"true">> ELSE <<"false">>
      [] Tag(val) = "num" -> NumStr(Val(val))
      [] Tag(val) = "str" -> <<"\"">> \o Val(val) \o <<"\"">>
      [] Tag(val) = "arr" -> <<"[">> \o ArrToString(Val(val)) \o <<"]">>
      [] Tag(val) = "obj" -> <<"{">> \o ObjToString(Val(val), SortedKeys(DOMAIN Val(val))) \o <<"}">>

(* Bodies {"items": c} with c an array or an object of up to MaxLength + 1 *)
(* elements, or a number.                                                  *)
MaxLength == 1

Collections ==
    {Arr([i \in 1..k |-> Num(1)]) : k \in 0..(MaxLength + 1)}
    \cup {Obj([key \in {<<"k">> \o NumStr(i) : i \in 1..k} |-> Num(1)]) : k \in 0..(MaxLength + 1)}

ItemsDocs == {Obj(<<"items">> :> c) : c \in Collections \cup {Num(7)}}

(* The documents the model's server and scenarios use, by their text.      *)
JsonDocs ==
    LET docs == ItemsDocs \cup
                { Obj(<<"ready">> :> Bool(TRUE)),
                  Obj(<<"ready">> :> Bool(FALSE)),
                  Obj(<<"ready">> :> Bool(TRUE) @@ <<"items">> :> Arr(<<Num(1)>>)),
                  Obj(<<"id">> :> Num(7)), Obj(<<"ref">> :> Num(7)), Obj(<<"ref">> :> Num(8)),
                  Bool(TRUE), Bool(FALSE), Null }
    IN  [txt \in {ValueToString(d) : d \in docs} |->
            CHOOSE d \in docs : ValueToString(d) = txt]

(* serde_json::from_str: a string literal without quotes inside, or one of *)
(* the documents above; anything else is a parse error.                    *)
from_str(text) ==
    IF /\ Len(text) >= 2 /\ text[1] = "\"" /\ text[Len(text)] = "\""
       /\ \A i \in 2..(Len(text) - 1) : text[i] # "\""
    THEN Some(Str(SubSeq(text, 2, Len(text) - 1)))
    ELSE IF text \in DOMAIN JsonDocs THEN Some(JsonDocs[text]) ELSE None

(***************************************************************************)
(* Placeholder expansion: \{\{\s*(?:vars\.)?(.+?)\s*\}\}                   *)
(***************************************************************************)
PlaceholderKey(inner) ==
    LET lead == TrimStart(inner)
        rest == IF StartsWith(lead, <<"vars", ".">>) /\ Trim(SubSeq(lead, 3, Len(lead))) # <<>>
                THEN SubSeq(lead, 3, Len(lead)) ELSE lead
    IN  TrimEnd(rest)

RECURSIVE expand_variables(_, _)
expand_variables(text, vars) ==
    IF text = <<>> THEN <<>>
    ELSE IF Head(text) = "{{" /\ \E j \in 3..Len(text) : text[j] = "}}"
    THEN LET j == CHOOSE i \in 3..Len(text) :
                      text[i] = "}}" /\ \A k \in 3..(i - 1) : text[k] # "}}"
             key == PlaceholderKey(SubSeq(text, 2, j - 1))
             rep == IF key \in DOMAIN vars
                    THEN IF Tag(vars[key]) = "str" THEN Val(vars[key]) ELSE ValueToString(vars[key])
                    ELSE SubSeq(text, 1, j)
         IN  rep \o expand_variables(SubSeq(text, j + 1, Len(text)), vars)
    ELSE <<Head(text)>> \o expand_variables(Tail(text), vars)

(***************************************************************************)
(* Path resolver and flattening                                            *)
(***************************************************************************)
ParseUsize(part) ==
    IF part # <<>> /\ \A i \in 1..Len(part) : IsDigit(part[i])
    THEN LET RECURSIVE val(_, _)
             val(s, acc) == IF s = <<>> THEN acc
                            ELSE val(Tail(s), acc * 10 + (TokenRank(Head(s)) - TokenRank("0")))
         IN  Some(val(part, 0))
    ELSE None

RECURSIVE get_value_by_parts(_, _)
get_value_by_parts(value, parts) ==
    IF parts = <<>> THEN Some(value)
    ELSE IF Head(parts) = <<>> THEN get_value_by_parts(value, Tail(parts))
    ELSE IF Tag(value) = "obj"
         THEN IF Head(parts) \in DOMAIN Val(value)
              THEN get_value_by_parts(Val(value)[Head(parts)], Tail(parts))
              ELSE None
    ELSE IF Tag(value) = "arr"
         THEN LET index == ParseUsize(Head(parts))
              IN  IF IsSome(index) /\ Unwrap(index) + 1 \in DOMAIN Val(value)
                  THEN get_value_by_parts(Val(value)[Unwrap(index) + 1], Tail(parts))
                  ELSE None
    ELSE None

get_value_by_path(value, path) ==
    IF path = <<>> THEN Some(value) ELSE get_value_by_parts(value, SplitDot(path))

(* The (key, leaf) pairs flatten_value inserts into vars.                  *)
RECURSIVE flatten_pairs(_, _)
flatten_pairs(prefix, value) ==
    IF Tag(value) = "obj"
    THEN IF DOMAIN Val(value) = {} THEN {<<prefix, value>>}
         ELSE UNION { flatten_pairs(IF prefix = <<>> THEN key ELSE prefix \o <<".">> \o key,
                                    Val(value)[key]) : key \in DOMAIN Val(value) }
    ELSE IF Tag(value) = "arr"
    THEN IF Val(value) = <<>> THEN {<<prefix, value>>}
         ELSE UNION { flatten_pairs(prefix \o <<".">> \o NumStr(idx - 1), Val(value)[idx]) :
                        idx \in DOMAIN Val(value) }
    ELSE {<<prefix, value>>}

flatten_value(prefix, value, vars) ==
    LET pairs == flatten_pairs(prefix, value)
        keys == {p[1] : p \in pairs}
    IN  [k \in DOMAIN vars \cup keys |->
            IF k \in keys THEN (CHOOSE p \in pairs : p[1] = k)[2] ELSE vars[k]]

(***************************************************************************)
(* validator.rs: deep equality with ignore patterns                        *)
(***************************************************************************)
PatternMatches(pat_parts, path_parts) ==
    /\ Len(pat_parts) = Len(path_parts)
    /\ \A i \in 1..Len(pat_parts) : pat_parts[i] = <<"*">> \/ pat_parts[i] = path_parts[i]

is_field_ignored(path, ignore_fields) ==
    \E i \in 1..Len(ignore_fields) : PatternMatches(SplitDot(ignore_fields[i]), SplitDot(path))

ChildPath(path_prefix, key) ==
    IF path_prefix = <<>> THEN key ELSE path_prefix \o <<".">> \o key

RECURSIVE validate_data_eq(_, _, _, _)
RECURSIVE data_eq_object(_, _, _, _, _)
RECURSIVE data_eq_array(_, _, _, _, _)
data_eq_object(a_map, e_map, all_keys, ignore_fields, path_prefix) ==
    IF all_keys = <<>> THEN <<>>
    ELSE LET key == Head(all_keys)
             child_path == ChildPath(path_prefix, key)
             here == IF is_field_ignored(child_path, ignore_fields) THEN <<>>
                     ELSE IF key \in DOMAIN a_map /\ key \in DOMAIN e_map
                     THEN validate_data_eq(a_map[key], e_map[key], ignore_fields, child_path)
                     ELSE IF key \in DOMAIN a_map
                     THEN << <<"data_eq '">> \o child_path \o <<"': unexpected field">> >>
                     ELSE << <<"data_eq '">> \o child_path \o <<"': missing field">> >>
         IN  here \o data_eq_object(a_map, e_map, Tail(all_keys), ignore_fields, path_prefix)
RECURSIVE data_eq_array_stops(_, _, _, _, _)
data_eq_array_stops(a_arr, e_arr, i, ignore_fields, path_prefix) ==
    IF Len(a_arr) # Len(e_arr) \/ i > Len(a_arr) THEN <<>>
    ELSE validate_data_eq(a_arr[i], e_arr[i], ignore_fields, ChildPath(path_prefix, NumStr(i - 1)))
         \o data_eq_array_stops(a_arr, e_arr, i + 1, ignore_fields, path_prefix)
data_eq_array(a_arr, e_arr, i, ignore_fields, path_prefix) ==
    IF i > Len(a_arr) \/ i > Len(e_arr) THEN <<>>
    ELSE validate_data_eq(a_arr[i], e_arr[i], ignore_fields, ChildPath(path_prefix, NumStr(i - 1)))
         \o data_eq_array(a_arr, e_arr, i + 1, ignore_fields, path_prefix)
validate_data_eq(actual, expected, ignore_fields, path_prefix) ==
    IF is_field_ignored(path_prefix, ignore_fields) THEN <<>>
    ELSE IF Tag(actual) = "obj" /\ Tag(expected) = "obj"
    THEN data_eq_object(Val(actual), Val(expected),
                        SortedKeys(DOMAIN Val(actual) \cup DOMAIN Val(expected)),
                        ignore_fields, path_prefix)
    ELSE IF Tag(actual) = "arr" /\ Tag(expected) = "arr"
    THEN (IF Len(Val(actual)) # Len(Val(expected))
          THEN << <<"data_eq '">> \o path_prefix \o <<"': array length mismatch">> >>
          ELSE <<>>)
         \o data_eq_array(Val(actual), Val(expected), 1, ignore_fields, path_prefix)
    ELSE IF actual # expected
    THEN << <<"data_eq '">> \o path_prefix \o <<"': value mismatch">> >>
    ELSE <<>>

RECURSIVE JoinErrors(_)
JoinErrors(errors) ==
    IF errors = <<>> THEN <<>>
    ELSE Head(errors) \o (IF Len(errors) > 1 THEN <<";", " ">> ELSE <<>>) \o JoinErrors(Tail(errors))

(***************************************************************************)
(* expression.rs: the CEL evaluator, on the expression forms the model's   *)
(* scenarios use.  An expression is [op, path, lit]:                       *)
(*   "lit"  the literal lit                                                *)
(*   "path" the member chain path[1].path[2]...                            *)
(*   "eq"   path[1].path[2]... == lit                                      *)
(*   "bad"  a text that does not compile                                   *)
(* A result is [ok |-> BOOLEAN, value |-> v].                              *)
(***************************************************************************)
ExprLit(v) == [op |-> "lit", path |-> <<>>, lit |-> v]
ExprPath(p) == [op |-> "path", path |-> p, lit |-> Null]
ExprEq(p, v) == [op |-> "eq", path |-> p, lit |-> v]
ExprBad == [op |-> "bad", path |-> <<>>, lit |-> Null]

ExprErr == [ok |-> FALSE, value |-> Null]
ExprOk(v) == [ok |-> TRUE, value |-> v]

RECURSIVE cel_member(_, _)
cel_member(value, path) ==
    IF path = <<>> THEN ExprOk(value)
    ELSE IF Tag(value) = "obj" /\ Head(path) \in DOMAIN Val(value)
    THEN cel_member(Val(value)[Head(path)], Tail(path))
    ELSE ExprErr

cel_execute(expr, vars) ==
    CASE expr.op = "bad" -> ExprErr
      [] expr.op = "lit" -> ExprOk(expr.lit)
      [] expr.op = "path" ->
            IF expr.path # <<>> /\ Head(expr.path) \in DOMAIN vars
            THEN cel_member(vars[Head(expr.path)], Tail(expr.path))
            ELSE ExprErr
      [] expr.op = "eq" ->
            LET l == IF expr.path # <<>> /\ Head(expr.path) \in DOMAIN vars
                     THEN cel_member(vars[Head(expr.path)], Tail(expr.path))
                     ELSE ExprErr
            IN  IF l.ok THEN ExprOk(Bool(l.value = expr.lit)) ELSE ExprErr

cel_value_is_truthy(value) ==
    CASE Tag(value) = "bool" -> Val(value)
      [] Tag(value) = "num" -> Val(value) # 0
      [] Tag(value) = "str" -> Val(value) # <<>>
      [] Tag(value) = "null" -> FALSE
      [] Tag(value) = "arr" -> Val(value) # <<>>
      [] Tag(value) = "obj" -> DOMAIN Val(value) # {}

(* Ok(true) / Ok(false) / Err as "true" / "false" / "err".                 *)
evaluate_test(expr, vars) ==
    LET result == cel_execute(expr, vars)
    IN  IF ~result.ok THEN "err"
        ELSE IF cel_value_is_truthy(result.value) THEN "true" ELSE "false"

resolve_value(expr, vars) == cel_execute(expr, vars)

(***************************************************************************)
(* sse.rs: framing of an event stream and the validator                    *)
(* A body is split into lines at "\n" tokens; "event:" and "data:" are     *)
(* tokens.                                                                 *)
(***************************************************************************)
RECURSIVE Lines(_)
Lines(body) ==
    IF body = <<>> THEN <<>>
    ELSE IF \E i \in 1..Len(body) : body[i] = "\n"
    THEN LET i == CHOOSE j \in 1..Len(body) : body[j] = "\n" /\ \A k \in 1..(j - 1) : body[k] # "\n"
         IN  <<SubSeq(body, 1, i - 1)>> \o Lines(SubSeq(body, i + 1, Len(body)))
    ELSE <<body>>

RECURSIVE JoinLines(_)
JoinLines(parts) ==
    IF parts = <<>> THEN <<>>
    ELSE Head(parts) \o (IF Len(parts) > 1 THEN <<"\n">> ELSE <<>>) \o JoinLines(Tail(parts))

SseEvent(event_type, data_parts) ==
    [event_type |-> event_type, data_raw |-> JoinLines(data_parts),
     data_json |-> from_str(JoinLines(data_parts))]

(* st = [events, current_event_type, current_data_parts]                   *)
RECURSIVE parse_sse_lines(_, _)
parse_sse_lines(lines, st) ==
    IF lines = <<>>
    THEN IF IsSome(st.current_event_type)
         THEN Append(st.events, SseEvent(Unwrap(st.current_event_type), st.current_data_parts))
         ELSE st.events
    ELSE LET line == Head(lines)
             flushed == IF IsSome(st.current_event_type)
                        THEN [events |-> Append(st.events, SseEvent(Unwrap(st.current_event_type),
                                                                    st.current_data_parts)),
                              current_event_type |-> None,
                              current_data_parts |-> <<>>]
                        ELSE st
         IN  IF StartsWith(line, <<"event:">>)
             THEN parse_sse_lines(Tail(lines),
                      [flushed EXCEPT !.current_event_type = Some(Trim(Tail(line)))])
             ELSE IF StartsWith(line, <<"data:">>)
             THEN parse_sse_lines(Tail(lines),
                      [st EXCEPT !.current_data_parts = Append(@, Trim(Tail(line)))])
             ELSE IF line = <<>>
             THEN parse_sse_lines(Tail(lines), flushed)
             ELSE parse_sse_lines(Tail(lines), st)

(* parse_sse_events without the flush at the end of the input.             *)
parse_sse_events_unflushed(body) ==
    LET lines == Lines(body)
        events == parse_sse_lines(lines, [events |-> <<>>, current_event_type |-> None,
                                          current_data_parts |-> <<>>])
        pending == \E i \in 1..Len(lines) :
                      /\ StartsWith(lines[i], <<"event:">>)
                      /\ \A k \in (i + 1)..Len(lines) :
                            lines[k] # <<>> /\ ~StartsWith(lines[k], <<"event:">>)
    IN  IF pending THEN SubSeq(events, 1, Len(events) - 1) ELSE events

parse_sse_events(body) ==
    parse_sse_lines(Lines(body),
        [events |-> <<>>, current_event_type |-> None, current_data_parts |-> <<>>])

EventData(event) == IF IsSome(event.data_json) THEN Unwrap(event.data_json) ELSE Str(event.data_raw)

build_sse_value(events) ==
    LET types == {events[i].event_type : i \in 1..Len(events)}
        RECURSIVE group(_, _)
        group(ty, i) == IF i > Len(events) THEN <<>>
                        ELSE (IF events[i].event_type = ty THEN <<EventData(events[i])>> ELSE <<>>)
                             \o group(ty, i + 1)
    IN  Obj([ty \in types |-> Arr(group(ty, 1))])

RECURSIVE sse_has_events(_, _)
sse_has_events(required, events) ==
    IF required = <<>> THEN <<>>
    ELSE (IF \E i \in 1..Len(events) : events[i].event_type = Head(required) THEN <<>>
          ELSE << <<"SSE: expected event type '">> \o Head(required) \o <<"' not found">> >>)
         \o sse_has_events(Tail(required), events)

RECURSIVE sse_has_no_events(_, _)
sse_has_no_events(forbidden, events) ==
    IF forbidden = <<>> THEN <<>>
    ELSE (IF \E i \in 1..Len(events) : events[i].event_type = Head(forbidden)
          THEN << <<"SSE: forbidden event type '">> \o Head(forbidden) \o <<"' was found">> >>
          ELSE <<>>)
         \o sse_has_no_events(Tail(forbidden), events)

(* Lines 309-331.  The regex ^\{\{\s*(\w+)\s*\}\}$: one name of word          *)
(* characters between the braces; the tokens below are the ones of the     *)
(* model's texts that are not word characters.                             *)
NonWord == {" ", "\t", "\n", ".", "-", "/", ":", ";", ",", "\"", "{", "}", "[", "]", "{{", "}}"}

WholePlaceholder(s) ==
    IF Len(s) >= 3 /\ s[1] = "{{" /\ s[Len(s)] = "}}"
       /\ Trim(SubSeq(s, 2, Len(s) - 1)) # <<>>
       /\ \A i \in 1..Len(Trim(SubSeq(s, 2, Len(s) - 1))) :
              Trim(SubSeq(s, 2, Len(s) - 1))[i] \notin NonWord
    THEN Some(Trim(SubSeq(s, 2, Len(s) - 1)))
    ELSE None

(* expand_value that does not look at the saved variables.                 *)
expand_value_context_only(val, context, saved_vars) ==
    IF Tag(val) = "str" THEN Str(expand_variables(Val(val), context)) ELSE val

expand_value(val, context, saved_vars) ==
    IF Tag(val) = "str"
    THEN IF IsSome(WholePlaceholder(Val(val)))
            /\ Unwrap(WholePlaceholder(Val(val))) \in DOMAIN saved_vars
         THEN saved_vars[Unwrap(WholePlaceholder(Val(val)))]
         ELSE Str(expand_variables(Val(val), context))
    ELSE val

(* Lines 196-226: the `data` checks of one expectation; Value::get(key) is *)
(* a member of an object.                                                  *)
OrderedDataError(exp, exp_idx, json, key, context, saved_vars) ==
    IF Tag(json) = "obj" /\ key \in DOMAIN Val(json)
    THEN IF Val(json)[key] # expand_value(exp.data[key], context, saved_vars)
         THEN << <<"SSE event[">> \o NumStr(exp_idx - 1) \o <<"]: field '">> \o key
                 \o <<"' mismatch">> >>
         ELSE <<>>
    ELSE << <<"SSE event[">> \o NumStr(exp_idx - 1) \o <<"]: field '">> \o key
            \o <<"' not found in data">> >>

RECURSIVE OrderedDataErrors(_, _, _, _, _, _)
OrderedDataErrors(exp, exp_idx, event, keys, context, saved_vars) ==
    IF keys = <<>> THEN <<>>
    ELSE IF IsNone(event.data_json)
    THEN << <<"SSE event[">> \o NumStr(exp_idx - 1) \o <<"]: data is not valid JSON">> >>
    ELSE OrderedDataError(exp, exp_idx, Unwrap(event.data_json), Head(keys), context, saved_vars)
         \o OrderedDataErrors(exp, exp_idx, event, Tail(keys), context, saved_vars)

(* Lines 164-306: the ordered expectations, each [event, data,             *)
(* data_contains, save], against the events from the cursor on.            *)
(* st = [errors, saved_vars, event_cursor].                                *)
OrderedSaved(exp, json, found) ==
    [n \in found |-> Unwrap(get_value_by_parts(json, SplitDot(exp.save[n])))]

OrderedSave(exp, exp_idx, event, st, found) ==
    [errors |-> IF IsSome(event.data_json) /\ found # DOMAIN exp.save
                THEN Append(st.errors, <<"SSE event[">> \o NumStr(exp_idx - 1)
                                       \o <<"]: save field not found in data">>)
                ELSE st.errors,
     saved_vars |-> IF IsSome(event.data_json)
                    THEN MapExtend(st.saved_vars, OrderedSaved(exp, Unwrap(event.data_json), found))
                    ELSE st.saved_vars,
     event_cursor |-> st.event_cursor]

OrderedContains(exp, exp_idx, event, context, errors) ==
    IF IsSome(exp.data_contains)
       /\ ~Contains(event.data_raw, expand_variables(Unwrap(exp.data_contains), context))
    THEN Append(errors, <<"SSE event[">> \o NumStr(exp_idx - 1) \o <<"]: data does not contain">>)
    ELSE errors

OrderedChecks(exp, exp_idx, event, context, st) ==
    OrderedSave(exp, exp_idx, event,
        [st EXCEPT !.errors =
            OrderedContains(exp, exp_idx, event, context,
                @ \o OrderedDataErrors(exp, exp_idx, event, SortedKeys(DOMAIN exp.data),
                                       context, st.saved_vars))],
        IF IsSome(event.data_json)
        THEN {n \in DOMAIN exp.save :
                 IsSome(get_value_by_parts(Unwrap(event.data_json), SplitDot(exp.save[n])))}
        ELSE {})

OrderedMatch(events, exp, exp_idx, context, st, expanded_event, at) ==
    IF at > Len(events)
    THEN [st EXCEPT !.errors = Append(@, <<"SSE event[">> \o NumStr(exp_idx - 1)
                                         \o <<"]: expected event '">> \o expanded_event
                                         \o <<"' not found">>),
                    !.event_cursor = Len(events)]
    ELSE OrderedChecks(exp, exp_idx, events[at], context, [st EXCEPT !.event_cursor = at])

(* The index of the first event of the type at or after the cursor, or     *)
(* Len(events) + 1.                                                        *)
RECURSIVE ScanForward(_, _, _)
ScanForward(events, event_type, at) ==
    IF at > Len(events) \/ events[at].event_type = event_type THEN at
    ELSE ScanForward(events, event_type, at + 1)

(* OrderedScan that scans from the first event.                            *)
OrderedScanFromStart(events, exp, exp_idx, context, st, expanded_event) ==
    OrderedMatch(events, exp, exp_idx, context, st, expanded_event,
                 ScanForward(events, expanded_event, 1))

OrderedScan(events, exp, exp_idx, context, st, expanded_event) ==
    OrderedMatch(events, exp, exp_idx, context, st, expanded_event,
                 ScanForward(events, expanded_event, st.event_cursor + 1))

RECURSIVE validate_ordered_events(_, _, _, _, _)
validate_ordered_events(events, expectations, exp_idx, context, st) ==
    IF exp_idx > Len(expectations) THEN st
    ELSE validate_ordered_events(events, expectations, exp_idx + 1, context,
             OrderedScan(events, expectations[exp_idx], exp_idx, context, st,
                         expand_variables(expectations[exp_idx].event, context)))

(* (errors, saved_vars) as [errors, saved_vars].                           *)
validate_sse(events, expect, context) ==
    IF expect.events # <<>>
    THEN validate_ordered_events(events, expect.events, 1, context,
             [errors |-> sse_has_events(expect.has_events, events)
                         \o sse_has_no_events(expect.has_no_events, events),
              saved_vars |-> EmptyMap, event_cursor |-> 0])
    ELSE [errors |-> sse_has_events(expect.has_events, events)
                     \o sse_has_no_events(expect.has_no_events, events),
          saved_vars |-> EmptyMap, event_cursor |-> 0]

(***************************************************************************)
(* runner.rs: the HTTP adapter as far as it decides the request that is    *)
(* recorded, and the values built from a response                          *)
(***************************************************************************)
map_string_to_value(map) == Obj([k \in DOMAIN map |-> Str(map[k])])

(* The final URL; None when it cannot be built (no scheme and no base).    *)
FinalUrl(request, vars, config) ==
    LET url == expand_variables(request.url, vars)
    IN  IF Contains(url, <<"://">>) THEN Some(url)
        ELSE IF IsSome(config.base_url)
        THEN IF Contains(Unwrap(config.base_url), <<"://">>)
             THEN Some(Unwrap(config.base_url) \o TrimMatchesStart(url, "/"))
             ELSE None
        ELSE None

MergedHeaders(request, vars, config) ==
    [k \in DOMAIN request.headers \cup DOMAIN config.headers |->
        expand_variables(IF k \in DOMAIN request.headers THEN request.headers[k]
                         ELSE config.headers[k], vars)]

BuildRequestInfo(request, vars, config) ==
    [method |-> request.method,
     url |-> Unwrap(FinalUrl(request, vars, config)),
     headers |-> MergedHeaders(request, vars, config),
     body |-> IF IsSome(request.body)
              THEN Some(expand_variables(ValueToString(Unwrap(request.body)), vars))
              ELSE None]

ContentType == <<"C", "o", "n", "t", "e", "n", "t", "-", "T", "y", "p", "e">>

RECURSIVE SeqOfSet(_)
SeqOfSet(S) == IF S = {} THEN <<>> ELSE LET x == CHOOSE x \in S : TRUE IN <<x>> \o SeqOfSet(S \ {x})

(* Lines 383-408: the header map of the request that is sent.  Every       *)
(* merged header is appended under its case-insensitive name, and a        *)
(* request with a body then gets Content-Type: application/json appended.  *)
WireHeaders(request, vars, config) ==
    LET headers == MergedHeaders(request, vars, config)
        names == {ToLowercase(k) : k \in DOMAIN headers}
                 \cup (IF IsSome(request.body) THEN {ToLowercase(ContentType)} ELSE {})
        given(n) == LET ks == SeqOfSet({k \in DOMAIN headers : ToLowercase(k) = n})
                    IN  [i \in 1..Len(ks) |-> headers[ks[i]]]
    IN  [n \in names |->
            IF IsSome(request.body) /\ n = ToLowercase(ContentType)
            THEN Append(given(n), <<"application/json">>)
            ELSE given(n)]

CallerContentType(request, vars, config) ==
    LET headers == MergedHeaders(request, vars, config)
    IN  {headers[k] : k \in {x \in DOMAIN headers : ToLowercase(x) = ToLowercase(ContentType)}}

build_current_value(status, headers, parsed_json, raw_body, req_info) ==
    LET res == (<<"status">> :> Num(status))
               @@ (IF DOMAIN headers # {} THEN <<"headers">> :> map_string_to_value(headers)
                   ELSE EmptyMap)
               @@ (<<"body">> :> (IF IsSome(parsed_json) THEN Unwrap(parsed_json)
                                  ELSE Str(raw_body)))
               @@ (<<"rawBody">> :> Str(raw_body))
        req == (<<"method">> :> Str(<<req_info.method>>))
               @@ (<<"url">> :> Str(req_info.url))
               @@ (IF DOMAIN req_info.headers # {}
                   THEN <<"headers">> :> map_string_to_value(req_info.headers) ELSE EmptyMap)
               @@ (IF IsSome(req_info.body)
                   THEN <<"body">> :> (IF IsSome(from_str(Unwrap(req_info.body)))
                                       THEN Unwrap(from_str(Unwrap(req_info.body)))
                                       ELSE Str(Unwrap(req_info.body)))
                   ELSE EmptyMap)
    IN  Obj(<<"res">> :> Obj(res) @@ <<"req">> :> Obj(req))

RequestValue(req_info) ==
    Obj((<<"method">> :> Str(<<req_info.method>>))
        @@ (<<"url">> :> Str(req_info.url))
        @@ (IF DOMAIN req_info.headers # {}
            THEN <<"headers">> :> map_string_to_value(req_info.headers) ELSE EmptyMap)
        @@ (IF IsSome(req_info.body) THEN <<"body">> :> Str(Unwrap(req_info.body))
            ELSE EmptyMap))

ResponseValue(status, headers, body, parsed_json) ==
    Obj((<<"status">> :> Num(status))
        @@ (IF DOMAIN headers # {} THEN <<"headers">> :> map_string_to_value(headers)
            ELSE EmptyMap)
        @@ (<<"body">> :> Str(body))
        @@ (IF IsSome(parsed_json) THEN <<"json">> :> Unwrap(parsed_json) ELSE EmptyMap))

OutputsValue(sse_events, parsed_json) ==
    IF IsSome(sse_events) THEN build_sse_value(Unwrap(sse_events))
    ELSE IF IsSome(parsed_json)
    THEN LET json == Unwrap(parsed_json)
         IN  IF Tag(json) = "obj" /\ <<"data">> \in DOMAIN Val(json) THEN Val(json)[<<"data">>] ELSE json
    ELSE Null

IsSse(step, headers) ==
    \/ IsSome(step.expect.sse)
    \/ /\ <<"content-type">> \in DOMAIN headers
       /\ Contains(headers[<<"content-type">>], <<"text/event-stream">>)

(* The steps key and the counters after the key is taken (lines 749-763).  *)
BaseStepKey(step, step_idx) ==
    LET key == IF IsSome(step.id) THEN Unwrap(step.id) ELSE slugify(step.name)
    IN  IF key = <<>> THEN <<"step">> \o NumStr(step_idx) ELSE key

StepKey(step, step_idx, step_key_counts) ==
    LET base == BaseStepKey(step, step_idx)
        count_entry == IF base \in DOMAIN step_key_counts THEN step_key_counts[base] ELSE 0
    IN  IF count_entry > 0 THEN base \o <<"_">> \o NumStr(count_entry + 1) ELSE base

BumpStepKeyCounts(step, step_idx, step_key_counts) ==
    LET base == BaseStepKey(step, step_idx)
        count_entry == IF base \in DOMAIN step_key_counts THEN step_key_counts[base] ELSE 0
    IN  MapInsert(step_key_counts, base, count_entry + 1)

(***************************************************************************)
(* The declarative expectations (lines 780-966).  Each check yields the    *)
(* message it assigns to step_error when it fails, None when it passes.    *)
(* Maps of the model's scenarios hold at most one entry, so the order in   *)
(* which a HashMap is iterated does not show.                              *)
(***************************************************************************)
StatusError(step, status) ==
    IF status # step.expect.status
    THEN Some(<<"status: expected ">> \o NumStr(step.expect.status) \o <<", got ">>
              \o NumStr(status))
    ELSE None

HeadersError(step, headers) ==
    LET failing == {n \in DOMAIN step.expect.headers :
                       n \notin DOMAIN headers \/ headers[n] # step.expect.headers[n]}
    IN  IF failing = {} THEN None
        ELSE LET n == CHOOSE k \in failing : TRUE
             IN  IF n \in DOMAIN headers THEN Some(<<"header '">> \o n \o <<"' mismatch">>)
                 ELSE Some(<<"header '">> \o n \o <<"' missing">>)

JsonPathsError(step, json_body) ==
    LET failing == {path \in DOMAIN step.expect.json :
                       get_value_by_path(json_body, path) # Some(step.expect.json[path])}
    IN  IF failing = {} THEN None
        ELSE LET path == CHOOSE k \in failing : TRUE
             IN  IF IsSome(get_value_by_path(json_body, path))
                 THEN Some(<<"json path '">> \o path \o <<"' mismatch">>)
                 ELSE Some(<<"json path '">> \o path \o <<"' missing">>)

(* JsonLengthError with the object arm left out.                           *)
JsonLengthErrorArraysOnly(json_body, path, expected_len) ==
    LET got == get_value_by_path(json_body, path)
    IN  IF IsNone(got) THEN Some(<<"json path '">> \o path \o <<"' missing">>)
        ELSE IF Tag(Unwrap(got)) = "arr"
        THEN IF Len(Val(Unwrap(got))) # expected_len
             THEN Some(<<"json path '">> \o path \o <<"' array length mismatch">>)
             ELSE None
        ELSE Some(<<"json path '">> \o path \o <<"' is not an array or object">>)

JsonLengthError(json_body, path, expected_len) ==
    LET got == get_value_by_path(json_body, path)
    IN  IF IsNone(got) THEN Some(<<"json path '">> \o path \o <<"' missing">>)
        ELSE IF Tag(Unwrap(got)) = "arr"
        THEN IF Len(Val(Unwrap(got))) # expected_len
             THEN Some(<<"json path '">> \o path \o <<"' array length mismatch">>)
             ELSE None
        ELSE IF Tag(Unwrap(got)) = "obj"
        THEN IF Cardinality(DOMAIN Val(Unwrap(got))) # expected_len
             THEN Some(<<"json path '">> \o path \o <<"' object size mismatch">>)
             ELSE None
        ELSE Some(<<"json path '">> \o path \o <<"' is not an array or object">>)

JsonLengthsError(step, json_body) ==
    LET failing == {path \in DOMAIN step.expect.json_lengths :
                       IsSome(JsonLengthError(json_body, path, step.expect.json_lengths[path]))}
    IN  IF failing = {} THEN None
        ELSE LET path == CHOOSE k \in failing : TRUE
             IN  JsonLengthError(json_body, path, step.expect.json_lengths[path])

(* Lines 810-886: json and json_lengths are looked at when either is set;  *)
(* a body that is no JSON fails once, before both.                         *)
JsonPathsCheck(step, parsed_json) ==
    IF DOMAIN step.expect.json # {} \/ DOMAIN step.expect.json_lengths # {}
    THEN IF IsSome(parsed_json) THEN JsonPathsError(step, Unwrap(parsed_json))
         ELSE Some(<<"response is not valid JSON">>)
    ELSE None

JsonLengthsCheck(step, parsed_json) ==
    IF (DOMAIN step.expect.json # {} \/ DOMAIN step.expect.json_lengths # {})
       /\ IsSome(parsed_json)
    THEN JsonLengthsError(step, Unwrap(parsed_json))
    ELSE None

(* json_eq: `serde_json::from_str(&expanded_str)?` is an engine error.     *)
JsonEqEngineError(step, parsed_json, context) ==
    /\ IsSome(step.expect.json_eq)
    /\ IsSome(parsed_json)
    /\ IsNone(from_str(expand_variables(ValueToString(Unwrap(step.expect.json_eq)), context)))

JsonEqError(step, parsed_json, context) ==
    IF IsSome(step.expect.json_eq)
    THEN IF IsSome(parsed_json)
         THEN LET expanded == Unwrap(from_str(expand_variables(
                                  ValueToString(Unwrap(step.expect.json_eq)), context)))
                  exact_errors == validate_data_eq(Unwrap(parsed_json), expanded,
                                                   step.expect.json_ignore_fields, <<>>)
              IN  IF exact_errors # <<>> THEN Some(JoinErrors(exact_errors)) ELSE None
         ELSE Some(<<"json_eq: response is not valid JSON">>)
    ELSE None

ContainsError(texts, body, context) ==
    LET failing == {j \in 1..Len(texts) : ~Contains(body, expand_variables(texts[j], context))}
    IN  IF failing = {} THEN None
        ELSE LET j == CHOOSE k \in failing : \A m \in failing : m <= k
             IN  Some(<<"body does not contain '">> \o expand_variables(texts[j], context)
                      \o <<"'">>)

(* Lines 943-966: [errors, saved_vars] of the SSE validation, if it runs.   *)
SseOutcome(step, sse_events, context) ==
    IF IsSome(step.expect.sse) /\ IsSome(sse_events)
    THEN validate_sse(Unwrap(sse_events), Unwrap(step.expect.sse), context)
    ELSE [errors |-> <<>>, saved_vars |-> EmptyMap, event_cursor |-> 0]

SseError(sse) == IF sse.errors # <<>> THEN Some(JoinErrors(sse.errors)) ELSE None

(* step_success and step_error after the checks ran in order, each failing *)
(* one assigning `step_success = false; step_error = Some(..)`.            *)
Passing == [ok |-> TRUE, err |-> None]

AssignErrors(errors) ==
    LET failing == {j \in 1..Len(errors) : IsSome(errors[j])}
    IN  IF failing = {} THEN Passing
        ELSE [ok |-> FALSE, err |-> errors[CHOOSE k \in failing : \A m \in failing : m <= k]]

(* Lines 780-966: what each check found, in the order the checks run.      *)
ExpectationErrors(step, status, headers, body, parsed_json, sse, context) ==
    <<StatusError(step, status),
      HeadersError(step, headers),
      JsonPathsCheck(step, parsed_json),
      JsonLengthsCheck(step, parsed_json),
      JsonEqError(step, parsed_json, context),
      ContainsError(step.expect.contains, body, context),
      SseError(sse)>>

CheckExpectations(step, status, headers, body, parsed_json, sse, context) ==
    AssignErrors(ExpectationErrors(step, status, headers, body, parsed_json, sse, context))

(* CheckTest evaluating `test` whatever the expectations found.            *)
CheckTestAlways(verdict, step, context) ==
    IF IsSome(step.test)
    THEN LET outcome == evaluate_test(Unwrap(step.test), context)
         IN  IF outcome = "true" THEN verdict
             ELSE IF outcome = "false"
             THEN [ok |-> FALSE, err |-> Some(<<"test expression failed">>)]
             ELSE [ok |-> FALSE, err |-> Some(<<"test expression error">>)]
    ELSE verdict

CheckTest(verdict, step, context) ==
    IF verdict.ok /\ IsSome(step.test)
    THEN LET outcome == evaluate_test(Unwrap(step.test), context)
         IN  IF outcome = "true" THEN verdict
             ELSE IF outcome = "false"
             THEN [ok |-> FALSE, err |-> Some(<<"test expression failed">>)]
             ELSE [ok |-> FALSE, err |-> Some(<<"test expression error">>)]
    ELSE verdict

(***************************************************************************)
(* save: and bind:                                                         *)
(***************************************************************************)
(* The resolver of save_variables: Value::get by key, then by index.       *)
RECURSIVE save_resolve(_, _)
save_resolve(current, parts) ==
    IF parts = <<>> THEN Some(current)
    ELSE LET part == Head(parts)
             index == ParseUsize(part)
         IN  IF Tag(current) = "obj" /\ part \in DOMAIN Val(current)
             THEN save_resolve(Val(current)[part], Tail(parts))
             ELSE IF Tag(current) = "arr" /\ IsSome(index) /\ Unwrap(index) + 1 \in DOMAIN Val(current)
             THEN save_resolve(Val(current)[Unwrap(index) + 1], Tail(parts))
             ELSE None

(* Ok: every path is found and every variable is written.  Err: the body   *)
(* is no JSON or a path is missing; with at most one entry nothing has     *)
(* been written by then.                                                   *)
save_variables(save, body, vars) ==
    IF DOMAIN save = {} THEN vars
    ELSE IF IsNone(from_str(body)) THEN vars
    ELSE IF \E n \in DOMAIN save : IsNone(save_resolve(Unwrap(from_str(body)), SplitDot(save[n])))
    THEN vars
    ELSE MapExtend(vars, [n \in DOMAIN save |->
                             Unwrap(save_resolve(Unwrap(from_str(body)), SplitDot(save[n])))])

SseSavePath(path) == IF StartsWith(path, <<"sse", ".">>) THEN SubSeq(path, 3, Len(path)) ELSE path

SaveStep(verdict, step, sse_events, outputs_value, body, vars) ==
    IF verdict.ok /\ DOMAIN step.save # {}
    THEN IF IsSome(sse_events)
         THEN LET found == {n \in DOMAIN step.save :
                               IsSome(get_value_by_path(outputs_value, SseSavePath(step.save[n])))}
              IN  MapExtend(vars, [n \in found |->
                      Unwrap(get_value_by_path(outputs_value, SseSavePath(step.save[n])))])
         ELSE save_variables(step.save, body, vars)
    ELSE vars

BindStep(verdict, step, vars) ==
    IF verdict.ok /\ DOMAIN step.bind # {}
    THEN LET bound == {n \in DOMAIN step.bind : resolve_value(step.bind[n], vars).ok}
         IN  MapExtend(vars, [n \in bound |-> resolve_value(step.bind[n], vars).value])
    ELSE vars

(***************************************************************************)
(* execute_step_once, for a step that is neither an include nor skipped.   *)
(* The mutable arguments travel as st = [vars, steps_map, step_key_counts, *)
(* previous_value]; the operators return st with `result` added.           *)
(***************************************************************************)
EnvVars == <<"env", ".", "HOME">> :> Str(<<"/root">>)

is_skipped(step, vars) ==
    /\ IsSome(step.condition)
    /\ ToLowercase(Trim(expand_variables(Unwrap(step.condition), vars))) # <<"t", "r", "u", "e">>

(* SendFailureResult without the error text.                              *)
SendFailureResultNoError(step, vars) ==
    [name |-> step.name,
     success |-> FALSE,
     error |-> None,
     request |-> [method |-> step.request.method,
                  url |-> expand_variables(step.request.url, vars),
                  headers |-> EmptyMap,
                  body |-> None],
     response |-> None,
     duration_ms |-> 0]

SendFailureResult(step, vars) ==
    [name |-> step.name,
     success |-> FALSE,
     error |-> Some(<<"request send error">>),
     request |-> [method |-> step.request.method,
                  url |-> expand_variables(step.request.url, vars),
                  headers |-> EmptyMap,
                  body |-> None],
     response |-> None,
     duration_ms |-> 0]

StepValue(step, verdict, duration_ms, o) ==
    Obj((<<"id">> :> Str(o.step_key))
        @@ (<<"name">> :> Str(step.name))
        @@ (<<"success">> :> Bool(verdict.ok))
        @@ (<<"durationMs">> :> Num(duration_ms))
        @@ (<<"request">> :> RequestValue(o.req_info))
        @@ (<<"response">> :> ResponseValue(o.status, o.headers, o.body, o.parsed_json))
        @@ (<<"outputs">> :> o.outputs_value)
        @@ (<<"res">> :> Val(o.current_value)[<<"res">>]))

(* Lines 651-778: what is read from the response, the steps key, and the   *)
(* context with `current` and `previous` written.                          *)
Observe(step, st, config, step_idx, resp) ==
    LET req_info == BuildRequestInfo(step.request, st.vars, config)
        parsed_json == from_str(resp.body)
        sse_events == IF IsSse(step, resp.headers) THEN Some(parse_sse_events(resp.body)) ELSE None
        current_value == build_current_value(resp.status, resp.headers, parsed_json, resp.body,
                                             req_info)
        vars1 == MapInsert(st.vars, <<"current">>, current_value)
    IN  [req_info |-> req_info, status |-> resp.status, headers |-> resp.headers,
         body |-> resp.body, parsed_json |-> parsed_json, sse_events |-> sse_events,
         outputs_value |-> OutputsValue(sse_events, parsed_json),
         step_key |-> StepKey(step, step_idx, st.step_key_counts),
         current_value |-> current_value,
         vars |-> IF IsSome(st.previous_value)
                  THEN MapInsert(vars1, <<"previous">>, Unwrap(st.previous_value))
                  ELSE vars1]

(* Lines 780-966: the expectations, and the context with the variables the *)
(* SSE validation saved.                                                   *)
(* Expected with the saved variables of a failed SSE validation dropped.   *)
ExpectedSaveOnSuccess(step, o, sse) ==
    [verdict |-> CheckExpectations(step, o.status, o.headers, o.body, o.parsed_json, sse, o.vars),
     vars |-> IF sse.errors = <<>> THEN MapExtend(o.vars, sse.saved_vars) ELSE o.vars]

Expected(step, o, sse) ==
    [verdict |-> CheckExpectations(step, o.status, o.headers, o.body, o.parsed_json, sse, o.vars),
     vars |-> MapExtend(o.vars, sse.saved_vars)]

Expect(step, o) == Expected(step, o, SseOutcome(step, o.sse_events, o.vars))

(* Lines 968-1058: test, save, bind.                                       *)
(* Tested with bind: applied before save:.                                 *)
TestedBindFirst(step, o, e, verdict) ==
    [verdict |-> verdict,
     vars |-> SaveStep(verdict, step, o.sse_events, o.outputs_value, o.body,
                       BindStep(verdict, step, e.vars))]

Tested(step, o, e, verdict) ==
    [verdict |-> verdict,
     vars |-> BindStep(verdict, step,
                       SaveStep(verdict, step, o.sse_events, o.outputs_value, o.body, e.vars))]

Settle(step, o, e) == Tested(step, o, e, CheckTest(e.verdict, step, e.vars))

(* Lines 1060-1120: the steps map, the flattened keys, `steps`, `previous` *)
(* for the next step, env.*, and the StepResult.                           *)
Store(step, st, step_idx, o, verdict, settled_vars, step_value, duration_ms) ==
    [vars |-> MapExtend(EnvVars,
                  MapInsert(flatten_value(<<"steps", ".">> \o o.step_key, step_value, settled_vars),
                            <<"steps">>, Obj(MapInsert(st.steps_map, o.step_key, step_value)))),
     steps_map |-> MapInsert(st.steps_map, o.step_key, step_value),
     step_key_counts |-> BumpStepKeyCounts(step, step_idx, st.step_key_counts),
     previous_value |-> Some(o.current_value),
     result |-> Some([name |-> step.name,
                      success |-> verdict.ok,
                      error |-> verdict.err,
                      request |-> o.req_info,
                      response |-> Some([status |-> o.status, headers |-> o.headers,
                                         body |-> Some(o.body)]),
                      duration_ms |-> duration_ms])]

Conclude(step, st, step_idx, o, s, duration_ms) ==
    Store(step, st, step_idx, o, s.verdict, s.vars,
          StepValue(step, s.verdict, duration_ms, o),
          duration_ms)

Judge(step, st, step_idx, o, duration_ms) ==
    Conclude(step, st, step_idx, o, Settle(step, o, Expect(step, o)), duration_ms)

ExecuteResponse(step, st, config, step_idx, resp, duration_ms) ==
    Judge(step, st, step_idx, Observe(step, st, config, step_idx, resp), duration_ms)

(* `?` inside execute_step_once after the response was read.               *)
ExecuteResponseFails(step, st, config, step_idx, resp) ==
    JsonEqEngineError(step, from_str(resp.body), Observe(step, st, config, step_idx, resp).vars)

(***************************************************************************)
(* State                                                                   *)
(*   input  the scenario handed to run                                     *)
(*   stack  the activations of run, the innermost last: the root and the   *)
(*          scenarios entered through include steps.  A frame holds the    *)
(*          locals of run and of execute_step_with_loop, the position pc:  *)
(*            "exec"   about to call execute_step_once for steps[step_idx] *)
(*            "sleep"  in tokio::time::sleep between two loop iterations   *)
(*            "done"   returned Ok(result)                                 *)
(*            "err"    returned Err                                        *)
(*          and two history fields the code does not read:                 *)
(*            hist      its calls of execute_step_once and its sleeps, in  *)
(*                      order: the step, the kind of call, what the call   *)
(*                      returned and the context it left                   *)
(*            returned  what execute_step_with_loop returned, per step     *)
(*   sent   number of requests handed to the HTTP client (history)         *)
(***************************************************************************)
VARIABLES input, stack, sent

vars == <<input, stack, sent>>

Top == stack[Len(stack)]
TopStep == Top.scenario.steps[Top.step_idx]

LoopInterval(step) == IF IsSome(step.loop_config) THEN Unwrap(step.loop_config).interval ELSE 0

(* f after a call of execute_step_once (or a sleep) of the given kind that *)
(* returned `result`, entered in the history.                              *)
Log(f, kind, result) ==
    [f EXCEPT !.hist = Append(@, [idx |-> f.step_idx, i |-> f.i, kind |-> kind,
                                  result |-> result, vars |-> f.vars])]

(* Lines 1181-1200: the TestResult.                                        *)
Finalize(f) ==
    [f EXCEPT !.pc = "done",
              !.result = Some([name |-> f.scenario.name,
                               success |-> f.scenario_success,
                               error |-> IF f.scenario_success THEN None
                                         ELSE Some(<<"some steps failed">>),
                               steps |-> f.step_results])]

(* The head of the `for` loop of run and the entry of                      *)
(* execute_step_with_loop for the step it yields.                          *)
EnterStep(f, idx) ==
    IF idx > Len(f.scenario.steps) THEN Finalize(f)
    ELSE [f EXCEPT !.step_idx = idx, !.i = 0,
                   !.interval = LoopInterval(f.scenario.steps[idx]), !.pc = "exec"]

(* Lines 1131-1138: the locals of run.                                     *)
RunStart(scenario) ==
    EnterStep([scenario |-> scenario, step_idx |-> 0, i |-> 0, interval |-> 0,
               vars |-> scenario.vars, steps_map |-> EmptyMap, step_key_counts |-> EmptyMap,
               previous_value |-> None, step_results |-> <<>>, scenario_success |-> TRUE,
               pc |-> "exec", result |-> None, hist |-> <<>>, returned |-> <<>>], 1)

(* Lines 1164-1178: run takes the result of execute_step_with_loop.        *)
Returned(f, result) ==
    [f EXCEPT !.returned = Append(@, [idx |-> f.step_idx, result |-> result])]

(* Pushed with scenario_success assigned from every result.                *)
PushedLastWins(f, result) ==
    [f EXCEPT !.step_results = Append(@, result), !.scenario_success = result.success]

Pushed(f, result) ==
    [f EXCEPT !.step_results = Append(@, result),
              !.scenario_success = IF ~result.success THEN FALSE ELSE @]

(* AfterStep without the break.                                            *)
AfterStepContinue(f, result) ==
    IF IsSome(result) THEN EnterStep(Pushed(Returned(f, result), Unwrap(result)), f.step_idx + 1)
    ELSE EnterStep(Returned(f, result), f.step_idx + 1)

(* AfterStep breaking at every failure.                                    *)
AfterStepStop(f, result) ==
    IF IsSome(result)
    THEN IF ~Unwrap(result).success
         THEN Finalize(Pushed(Returned(f, result), Unwrap(result)))
         ELSE EnterStep(Pushed(Returned(f, result), Unwrap(result)), f.step_idx + 1)
    ELSE EnterStep(Returned(f, result), f.step_idx + 1)

AfterStep(f, result) ==
    IF IsSome(result)
    THEN IF ~Unwrap(result).success /\ ~f.scenario.config.continue_on_failure
         THEN Finalize(Pushed(Returned(f, result), Unwrap(result)))
         ELSE EnterStep(Pushed(Returned(f, result), Unwrap(result)), f.step_idx + 1)
    ELSE EnterStep(Returned(f, result), f.step_idx + 1)

(* Lines 150-193 and the returns of lines 198-218: what                    *)
(* execute_step_with_loop does with the result of execute_step_once, up to *)
(* the next call or sleep.                                                 *)
(* AfterOnce with success ending the loop whether or not `until` is set.   *)
AfterOnceSuccessExit(f, result) ==
    LET step == f.scenario.steps[f.step_idx]
    IN  IF IsNone(step.loop_config) THEN AfterStep(f, result)
        ELSE LET loop_cfg == Unwrap(step.loop_config)
             IN  IF f.i >= loop_cfg.count THEN AfterStep(f, result)
                 ELSE IF IsSome(loop_cfg.until)
                         /\ evaluate_test(Unwrap(loop_cfg.until), f.vars) = "true"
                 THEN AfterStep(f, result)
                 ELSE IF IsSome(result) /\ Unwrap(result).success
                 THEN AfterStep(f, result)
                 ELSE IF f.i + 1 < loop_cfg.count
                 THEN [f EXCEPT !.pc = "sleep"]
                 ELSE [f EXCEPT !.i = f.i + 1]

(* AfterOnce returning the last iteration's result, with no further call.  *)
AfterOnceNoReexec(f, result) ==
    LET step == f.scenario.steps[f.step_idx]
    IN  IF IsNone(step.loop_config) THEN AfterStep(f, result)
        ELSE LET loop_cfg == Unwrap(step.loop_config)
             IN  IF f.i >= loop_cfg.count THEN AfterStep(f, result)
                 ELSE IF IsSome(loop_cfg.until)
                         /\ evaluate_test(Unwrap(loop_cfg.until), f.vars) = "true"
                 THEN AfterStep(f, result)
                 ELSE IF IsNone(loop_cfg.until) /\ IsSome(result) /\ Unwrap(result).success
                 THEN AfterStep(f, result)
                 ELSE IF f.i + 1 < loop_cfg.count
                 THEN [f EXCEPT !.pc = "sleep"]
                 ELSE AfterStep(f, result)

(* AfterOnce with an error of the `until` expression ending the loop.      *)
AfterOnceUntilErrorEnds(f, result) ==
    LET step == f.scenario.steps[f.step_idx]
    IN  IF IsNone(step.loop_config) THEN AfterStep(f, result)
        ELSE LET loop_cfg == Unwrap(step.loop_config)
             IN  IF f.i >= loop_cfg.count THEN AfterStep(f, result)
                 ELSE IF IsSome(loop_cfg.until)
                         /\ evaluate_test(Unwrap(loop_cfg.until), f.vars) # "false"
                 THEN AfterStep(f, result)
                 ELSE IF IsNone(loop_cfg.until) /\ IsSome(result) /\ Unwrap(result).success
                 THEN AfterStep(f, result)
                 ELSE IF f.i + 1 < loop_cfg.count
                 THEN [f EXCEPT !.pc = "sleep"]
                 ELSE [f EXCEPT !.i = f.i + 1]

AfterOnce(f, result) ==
    LET step == f.scenario.steps[f.step_idx]
    IN  IF IsNone(step.loop_config) THEN AfterStep(f, result)
        ELSE LET loop_cfg == Unwrap(step.loop_config)
             IN  IF f.i >= loop_cfg.count THEN AfterStep(f, result)
                 ELSE IF IsSome(loop_cfg.until)
                         /\ evaluate_test(Unwrap(loop_cfg.until), f.vars) = "true"
                 THEN AfterStep(f, result)
                 ELSE IF IsNone(loop_cfg.until) /\ IsSome(result) /\ Unwrap(result).success
                 THEN AfterStep(f, result)
                 ELSE IF f.i + 1 < loop_cfg.count
                 THEN [f EXCEPT !.pc = "sleep"]
                 ELSE [f EXCEPT !.i = f.i + 1]

(* Lines 186-192.                                                          *)
NextInterval(loop_cfg, interval) ==
    IF IsSome(loop_cfg.multiplier)
    THEN LET scaled == interval * Unwrap(loop_cfg.multiplier)
         IN  IF IsSome(loop_cfg.max_interval) /\ Unwrap(loop_cfg.max_interval) < scaled
             THEN Unwrap(loop_cfg.max_interval)
             ELSE scaled
    ELSE interval

SetTop(f) == stack' = [stack EXCEPT ![Len(stack)] = f]

Running == stack # <<>> /\ Top.pc = "exec"
PlainStep == Running /\ IsNone(TopStep.include)
Mutable(f) == [vars |-> f.vars, steps_map |-> f.steps_map,
               step_key_counts |-> f.step_key_counts, previous_value |-> f.previous_value]
WithMutable(f, st) == [f EXCEPT !.vars = st.vars, !.steps_map = st.steps_map,
                                !.step_key_counts = st.step_key_counts,
                                !.previous_value = st.previous_value]

(***************************************************************************)
(* Inputs: the scenarios run is given, the files include can load, and the *)
(* responses the server can give                                           *)
(***************************************************************************)
DefaultExpect ==
    [status |-> 200, headers |-> EmptyMap, json |-> EmptyMap, json_lengths |-> EmptyMap,
     contains |-> <<>>, json_eq |-> None, json_ignore_fields |-> <<>>, sse |-> None]

BaseStep(name) ==
    [name |-> name, id |-> None,
     request |-> [method |-> "GET", url |-> <<"/", "a">>, headers |-> EmptyMap, body |-> None],
     expect |-> DefaultExpect, save |-> EmptyMap, condition |-> None, test |-> None,
     bind |-> EmptyMap, loop_config |-> None, include |-> None]

LoopConfig(count, until) ==
    [count |-> count, until |-> until, interval |-> 1, multiplier |-> Some(2),
     max_interval |-> Some(3)]

UntilReady == ExprEq(<<<<"current">>, <<"res">>, <<"body">>, <<"ready">>>>, Bool(TRUE))

(* GET /a, status 200, save flag <- ready                                  *)
StepSave == [BaseStep(<<"a">>) EXCEPT !.save = <<"flag">> :> <<"ready">>]

(* three expectations that can fail together, and a test                   *)
StepChecks ==
    [BaseStep(<<"B", " ", "b">>) EXCEPT
        !.expect = [DefaultExpect EXCEPT !.json = <<"ready">> :> Bool(TRUE),
                                         !.contains = << <<"true">> >>],
        !.test = Some(UntilReady)]

StepCondFalse == [BaseStep(<<"a">>) EXCEPT !.condition = Some(<<"f", "a", "l", "s", "e">>)]

StepCondFlag == [BaseStep(<<"a">>) EXCEPT !.condition = Some(<<"{{", " ", "flag", " ", "}}">>)]

StepLoopUntil(count) ==
    [BaseStep(<<"l">>) EXCEPT !.loop_config = Some(LoopConfig(count, Some(UntilReady)))]

(* a loop whose `until` does not compile                                   *)
StepLoopUntilBad ==
    [BaseStep(<<"l">>) EXCEPT !.loop_config = Some(LoopConfig(1, Some(ExprBad)))]

StepLoop(count) ==
    [BaseStep(<<"l">>) EXCEPT !.loop_config = Some(LoopConfig(count, None))]

StepLoopSkipped ==
    [BaseStep(<<"l">>) EXCEPT !.condition = Some(<<"f", "a", "l", "s", "e">>),
                              !.loop_config = Some(LoopConfig(MaxCount, None))]

StepInclude(path) ==
    [BaseStep(<<"s", "u", "b">>) EXCEPT !.include = Some([path |-> path, vars |-> EmptyMap])]

StepIncludeCondFalse ==
    [StepInclude(<<"child">>) EXCEPT !.condition = Some(<<"f", "a", "l", "s", "e">>)]

(* json_eq whose expected text is no JSON once {{current}} is expanded     *)
StepJsonEq ==
    [BaseStep(<<"e">>) EXCEPT
        !.expect = [DefaultExpect EXCEPT !.json_eq = Some(Str(<<"{{", "current", "}}">>))]]

(* test on the previous step's body; save, and a bind that reads the saved *)
(* variable                                                                *)
StepTestBind ==
    [BaseStep(<<"t">>) EXCEPT
        !.test = Some(ExprEq(<<<<"previous">>, <<"res">>, <<"body">>, <<"ready">>>>, Bool(TRUE))),
        !.save = <<"seen">> :> <<"ready">>,
        !.bind = <<"copy">> :> ExprPath(<<<<"seen">>>>)]

(* GET /s with two ordered SSE expectations: the first saves `id` of an    *)
(* "m" event as flag, the second wants `ref` of a later "m" event to be    *)
(* {{flag}}                                                                *)
SseEventExpectation(event, data, save) ==
    [event |-> event, data |-> data, data_contains |-> None, save |-> save]

StepSse ==
    [BaseStep(<<"s">>) EXCEPT
        !.request.url = <<"/", "s">>,
        !.expect.sse = Some([has_events |-> <<>>, has_no_events |-> <<>>,
                             events |-> <<SseEventExpectation(<<"m">>, EmptyMap,
                                                              <<"flag">> :> <<"id">>),
                                          SseEventExpectation(<<"m">>,
                                              <<"ref">> :> Str(<<"{{", "flag", "}}">>),
                                              EmptyMap)>>])]

StepMenu ==
    {StepSave, StepChecks, StepCondFalse, StepCondFlag, StepLoopSkipped,
     StepInclude(<<"child">>), StepInclude(<<"missing">>), StepIncludeCondFalse, StepJsonEq,
     StepTestBind, StepSse}
    \cup {StepLoopUntil(c) : c \in 0..MaxCount} \cup {StepLoop(c) : c \in 0..MaxCount}
    \cup {StepLoopUntilBad}

Config(continue_on_failure) ==
    [base_url |-> Some(<<"http", "://", "h", "/">>), headers |-> EmptyMap,
     continue_on_failure |-> continue_on_failure]

RECURSIVE StepSeqs(_)
StepSeqs(n) ==
    IF n = 0 THEN {<<>>}
    ELSE StepSeqs(n - 1) \cup {Append(q, m) : q \in {p \in StepSeqs(n - 1) : Len(p) = n - 1},
                                              m \in StepMenu}

(* A scenario whose base_url reqwest::Url::parse rejects.                   *)
BadBaseScenario ==
    [name |-> <<"root">>, steps |-> <<StepSave, StepSave>>, vars |-> EmptyMap,
     config |-> [Config(TRUE) EXCEPT !.base_url = Some(<<"h">>)]]

Scenarios ==
    {[name |-> <<"root">>, steps |-> q, vars |-> <<"flag">> :> Str(<<" ", "T", "R", "U", "E">>),
      config |-> Config(c)] : q \in StepSeqs(MaxSteps), c \in BOOLEAN}
    \cup {BadBaseScenario}

(* The scenario files on disk.                                             *)
Files ==
    <<"child">> :> [name |-> <<"child">>,
                    steps |-> <<[StepSave EXCEPT !.name = <<"c">>], StepChecks>>,
                    vars |-> <<"flag">> :> Str(<<"f", "a", "l", "s", "e">>),
                    config |-> [base_url |-> None, headers |-> EmptyMap,
                                continue_on_failure |-> FALSE]]

load_scenario(path) == IF path \in DOMAIN Files THEN Some(Files[path]) ELSE None

ReadyBody(b) == ValueToString(Obj(<<"ready">> :> Bool(b)))

Responses ==
    {[status |-> 200, headers |-> EmptyMap, body |-> ReadyBody(TRUE)],
     [status |-> 200, headers |-> EmptyMap, body |-> ReadyBody(FALSE)],
     [status |-> 500, headers |-> EmptyMap, body |-> <<"oops">>]}

(* An event stream of two "m" events.                                      *)
SseBody(first, second) ==
    <<"event:", " ", "m", "\n", "data:", " ">> \o ValueToString(first)
    \o <<"\n", "\n", "event:", " ", "m", "\n", "data:", " ">> \o ValueToString(second)
    \o <<"\n", "\n">>

SseResponses ==
    {[status |-> 200, headers |-> <<"content-type">> :> <<"text/event-stream">>,
      body |-> SseBody(Obj(<<"id">> :> Num(7)), Obj(<<"ref">> :> Num(r)))] : r \in {7, 8}}

(* What the server can answer to the request of a step: /s is its event    *)
(* stream endpoint.                                                        *)
ItemsResponses == {[status |-> 200, headers |-> EmptyMap, body |-> ValueToString(d)] : d \in ItemsDocs}

Served(step) ==
    IF step.request.url = <<"/", "s">> THEN Responses \cup SseResponses
    ELSE IF step.request.url = <<"/", "n">> THEN Responses \cup ItemsResponses
    ELSE Responses

MaxDurationMs == 0
Durations == 0..MaxDurationMs

(***************************************************************************)
(* Actions: each is one call of execute_step_once (or one sleep) together  *)
(* with everything the loop controller and the driver do with its result   *)
(* up to the next suspension point.                                        *)
(***************************************************************************)
Init ==
    /\ input \in Scenarios
    /\ stack = <<>>
    /\ sent = 0

(* run is called on the input.                                             *)
Start ==
    /\ stack = <<>>
    /\ stack' = <<RunStart(input)>>
    /\ UNCHANGED <<input, sent>>

(* StepSkip with the step key taken before the condition is looked at.     *)
StepSkipCounted ==
    /\ PlainStep
    /\ is_skipped(TopStep, Top.vars)
    /\ SetTop(AfterOnce(Log([Top EXCEPT !.step_key_counts =
                                 BumpStepKeyCounts(TopStep, Top.step_idx, @)], "skip", None),
                        None))
    /\ UNCHANGED <<input, sent>>

(* Lines 608-619: the condition is not "true".                             *)
StepSkip ==
    /\ PlainStep
    /\ is_skipped(TopStep, Top.vars)
    /\ SetTop(AfterOnce(Log(Top, "skip", None), None))
    /\ UNCHANGED <<input, sent>>

(* StepSendFail with the error of send_request passed on by `?`.           *)
StepSendFailAborts ==
    /\ PlainStep
    /\ ~is_skipped(TopStep, Top.vars)
    /\ SetTop([Log(Top, "sendfail", None) EXCEPT !.pc = "err"])
    /\ sent' = IF IsSome(FinalUrl(TopStep.request, Top.vars, Top.scenario.config))
               THEN sent + 1 ELSE sent
    /\ UNCHANGED input

(* Lines 621-649: send_request returns Err.  The client was handed the     *)
(* request unless the URL could not be built.                              *)
StepSendFail ==
    /\ PlainStep
    /\ ~is_skipped(TopStep, Top.vars)
    /\ SetTop(AfterOnce(Log(Top, "sendfail", Some(SendFailureResult(TopStep, Top.vars))),
                        Some(SendFailureResult(TopStep, Top.vars))))
    /\ sent' = IF IsSome(FinalUrl(TopStep.request, Top.vars, Top.scenario.config))
               THEN sent + 1 ELSE sent
    /\ UNCHANGED input

(* Lines 663-666: the body cannot be read; `?` returns Err from run.       *)
StepReadFail ==
    /\ PlainStep
    /\ ~is_skipped(TopStep, Top.vars)
    /\ IsSome(FinalUrl(TopStep.request, Top.vars, Top.scenario.config))
    /\ SetTop([Log(Top, "readfail", None) EXCEPT !.pc = "err"])
    /\ sent' = sent + 1
    /\ UNCHANGED input

(* Lines 899-903: `?` on the json_eq text returns Err from run.            *)
StepEngineError ==
    /\ PlainStep
    /\ ~is_skipped(TopStep, Top.vars)
    /\ IsSome(FinalUrl(TopStep.request, Top.vars, Top.scenario.config))
    /\ \E resp \in Served(TopStep) :
          /\ ExecuteResponseFails(TopStep, Mutable(Top), Top.scenario.config, Top.step_idx, resp)
          /\ SetTop([Log(Top, "engineerr", None) EXCEPT !.pc = "err"])
    /\ sent' = sent + 1
    /\ UNCHANGED input

Responded(f, st) == AfterOnce(Log(WithMutable(f, st), "response", st.result), st.result)

(* Lines 651-1120: a response arrives and is processed.                    *)
StepRespond ==
    /\ PlainStep
    /\ ~is_skipped(TopStep, Top.vars)
    /\ IsSome(FinalUrl(TopStep.request, Top.vars, Top.scenario.config))
    /\ \E resp \in Served(TopStep), duration_ms \in Durations :
          /\ ~ExecuteResponseFails(TopStep, Mutable(Top), Top.scenario.config, Top.step_idx, resp)
          /\ SetTop(Responded(Top, ExecuteResponse(TopStep, Mutable(Top), Top.scenario.config,
                                                   Top.step_idx, resp, duration_ms)))
    /\ sent' = sent + 1
    /\ UNCHANGED input

(* Lines 521-553: the scenario an include step runs.                       *)
IncludedScenario(include, loaded, parent_vars, config) ==
    LET overrides == {k \in DOMAIN include.vars :
                         IsSome(from_str(expand_variables(ValueToString(include.vars[k]),
                                                          parent_vars)))}
        own == MapExtend(loaded.vars,
                   [k \in overrides |->
                       Unwrap(from_str(expand_variables(ValueToString(include.vars[k]),
                                                        parent_vars)))])
    IN  [loaded EXCEPT
            !.vars = MapExtend(parent_vars, own),
            !.config = [@ EXCEPT !.base_url = IF IsNone(@) THEN config.base_url ELSE @,
                                 !.headers = MapExtend(config.headers, @)]]

(* Lines 499-555: an include step loads the file and calls run on it.      *)
IncludeEnter ==
    /\ Running
    /\ IsSome(TopStep.include)
    /\ LET include == Unwrap(TopStep.include)
           loaded == load_scenario(expand_variables(include.path, Top.vars))
       IN  /\ IsSome(loaded)
           /\ stack' = Append([stack EXCEPT ![Len(stack)] = Log(Top, "include", None)],
                              RunStart(IncludedScenario(include, Unwrap(loaded), Top.vars,
                                                        Top.scenario.config)))
    /\ UNCHANGED <<input, sent>>

(* Lines 509-519: the file cannot be loaded; `?` returns Err from run.     *)
IncludeLoadFail ==
    /\ Running
    /\ IsSome(TopStep.include)
    /\ IsNone(load_scenario(expand_variables(Unwrap(TopStep.include).path, Top.vars)))
    /\ SetTop([Log(Top, "include", None) EXCEPT !.pc = "err"])
    /\ UNCHANGED <<input, sent>>

IncludedStepsMap(result) ==
    LET names == {result.steps[j].name : j \in 1..Len(result.steps)}
        last(n) == CHOOSE j \in 1..Len(result.steps) :
                      /\ result.steps[j].name = n
                      /\ \A k \in (j + 1)..Len(result.steps) : result.steps[k].name # n
    IN  [n \in names |-> Obj(<<"name">> :> Str(n)
                             @@ <<"success">> :> Bool(result.steps[last(n)].success))]

IncludeStepResult(step, vars_at_entry, result) ==
    [name |-> step.name,
     success |-> result.success,
     error |-> result.error,
     request |-> [method |-> "INCLUDE",
                  url |-> expand_variables(Unwrap(step.include).path, vars_at_entry),
                  headers |-> EmptyMap, body |-> None],
     response |-> None,
     duration_ms |-> 0]

(* Lines 555-605: the included run returned Ok; its steps are summarised   *)
(* under the include step's key and the include's StepResult is returned.  *)
IncludeReturnMerging ==
    /\ Len(stack) >= 2
    /\ Top.pc = "done"
    /\ LET parent == stack[Len(stack) - 1]
           step == parent.scenario.steps[parent.step_idx]
           result == Unwrap(Top.result)
           step_key == IF IsSome(step.id) THEN Unwrap(step.id) ELSE slugify(step.name)
           f == [parent EXCEPT
                    !.vars = MapExtend(@, Top.vars),
                    !.steps_map = MapInsert(@, step_key,
                                      Obj(<<"steps">> :> Obj(IncludedStepsMap(result)))),
                    !.hist[Len(parent.hist)].result =
                        Some(IncludeStepResult(step, parent.vars, result))]
       IN  stack' = Append(SubSeq(stack, 1, Len(stack) - 2),
                           AfterOnce(f, Some(IncludeStepResult(step, parent.vars, result))))
    /\ UNCHANGED <<input, sent>>

IncludeReturn ==
    /\ Len(stack) >= 2
    /\ Top.pc = "done"
    /\ LET parent == stack[Len(stack) - 1]
           step == parent.scenario.steps[parent.step_idx]
           result == Unwrap(Top.result)
           step_key == IF IsSome(step.id) THEN Unwrap(step.id) ELSE slugify(step.name)
           f == [parent EXCEPT
                    !.steps_map = MapInsert(@, step_key,
                                      Obj(<<"steps">> :> Obj(IncludedStepsMap(result)))),
                    !.hist[Len(parent.hist)].result =
                        Some(IncludeStepResult(step, parent.vars, result))]
       IN  stack' = Append(SubSeq(stack, 1, Len(stack) - 2),
                           AfterOnce(f, Some(IncludeStepResult(step, parent.vars, result))))
    /\ UNCHANGED <<input, sent>>

(* Line 555: the included run returned Err; `?` returns it from run.       *)
IncludeAbort ==
    /\ Len(stack) >= 2
    /\ Top.pc = "err"
    /\ stack' = Append(SubSeq(stack, 1, Len(stack) - 2),
                       [stack[Len(stack) - 1] EXCEPT !.pc = "err"])
    /\ UNCHANGED <<input, sent>>

(* Lines 180-193: the sleep between two iterations ends.                   *)
Sleep ==
    /\ stack # <<>>
    /\ Top.pc = "sleep"
    /\ SetTop([Log(Top, "sleep", None) EXCEPT
                          !.interval = NextInterval(Unwrap(TopStep.loop_config), @),
                          !.i = @ + 1,
                          !.pc = "exec"])
    /\ UNCHANGED <<input, sent>>

Next ==
    \/ Start
    \/ StepSkip
    \/ StepSendFail
    \/ StepReadFail
    \/ StepEngineError
    \/ StepRespond
    \/ IncludeEnter
    \/ IncludeLoadFail
    \/ IncludeReturn
    \/ IncludeAbort
    \/ Sleep

Spec == Init /\ [][Next]_vars

(***************************************************************************)
(* Properties.  They read the history fields: Calls(f, k) is the sequence  *)
(* of calls of execute_step_once made for step k of frame f.               *)
(***************************************************************************)
Calls(f, k) == SelectSeq(f.hist, LAMBDA e : e.idx = k /\ e.kind # "sleep")

LoopSteps(f) == {k \in 1..Len(f.scenario.steps) : IsSome(f.scenario.steps[k].loop_config)}

LoopCfg(f, k) == Unwrap(f.scenario.steps[k].loop_config)

HasReturned(f, k) == \E j \in 1..Len(f.returned) : f.returned[j].idx = k

ReturnedFor(f, k) == f.returned[CHOOSE j \in 1..Len(f.returned) : f.returned[j].idx = k].result

(* The n-th call of step k was its last and the loop returned its result.  *)
EndsLoopAt(f, k, n) ==
    /\ Len(Calls(f, k)) = n
    /\ HasReturned(f, k)
    /\ ReturnedFor(f, k) = Calls(f, k)[n].result
    /\ \A p \in 1..Len(f.hist) :
          (f.hist[p].idx = k /\ f.hist[p].kind = "sleep") => f.hist[p].i + 1 < n

(* The early exit of lines 151-178, read off a call of the history.        *)
ExitAt(loop_cfg, e) ==
    IF IsSome(loop_cfg.until) THEN evaluate_test(Unwrap(loop_cfg.until), e.vars) = "true"
    ELSE IsSome(e.result) /\ Unwrap(e.result).success

NoEarlyExit(f, k) ==
    \A n \in 1..Len(Calls(f, k)) : n <= LoopCfg(f, k).count => ~ExitAt(LoopCfg(f, k), Calls(f, k)[n])

(* The condition of the claims C9 and C10: set, and not "true" once        *)
(* expanded, trimmed and lower-cased.                                      *)
CondNotTrue(step, context) ==
    /\ IsSome(step.condition)
    /\ ToLowercase(Trim(expand_variables(Unwrap(step.condition), context))) # <<"t", "r", "u", "e">>

(* C1: in a run with continue_on_failure = false a StepResult with         *)
(* success = false is the last element of the steps, the run has returned  *)
(* a TestResult holding them, and the last call of execute_step_once the   *)
(* run made is the one that produced it: no later step was executed.       *)
C1_StopsAtFirstFailure ==
    \A d \in 1..Len(stack) :
        ~stack[d].scenario.config.continue_on_failure =>
            \A j \in 1..Len(stack[d].step_results) :
                ~stack[d].step_results[j].success =>
                    /\ j = Len(stack[d].step_results)
                    /\ d = Len(stack)
                    /\ stack[d].pc = "done"
                    /\ Unwrap(stack[d].result).steps = stack[d].step_results
                    /\ stack[d].returned[Len(stack[d].returned)].result
                           = Some(stack[d].step_results[j])
                    /\ stack[d].hist[Len(stack[d].hist)].idx
                           = stack[d].returned[Len(stack[d].returned)].idx
                    /\ stack[d].hist[Len(stack[d].hist)].vars = stack[d].vars

(* A run that stopped at a failing step with a step still to come.         *)
C1_Witness ==
    /\ stack # <<>>
    /\ Top.pc = "done"
    /\ ~Top.scenario.config.continue_on_failure
    /\ Top.step_idx < Len(Top.scenario.steps)
    /\ Top.step_results # <<>>
    /\ ~Top.step_results[Len(Top.step_results)].success
    /\ sent > 0

(* C2: a returned TestResult has success = TRUE exactly when every         *)
(* StepResult of its steps has, and error = None exactly when success; on  *)
(* failure the error is the fixed summary.                                 *)
C2_SuccessIffAllSteps ==
    \A d \in 1..Len(stack) :
        stack[d].pc = "done" =>
            /\ Unwrap(stack[d].result).success
                   <=> \A j \in 1..Len(Unwrap(stack[d].result).steps) :
                           Unwrap(stack[d].result).steps[j].success
            /\ IsNone(Unwrap(stack[d].result).error) <=> Unwrap(stack[d].result).success
            /\ ~Unwrap(stack[d].result).success
                   => Unwrap(stack[d].result).error = Some(<<"some steps failed">>)

(* A failed run of two steps whose second step succeeded.                  *)
C2_Witness ==
    /\ stack # <<>>
    /\ Top.pc = "done"
    /\ Len(Unwrap(Top.result).steps) = 2
    /\ ~Unwrap(Top.result).steps[1].success
    /\ Unwrap(Top.result).steps[2].success

(* The StepResults of the steps that returned one, in order.               *)
Reported(returned) ==
    [n \in 1..Len(SelectSeq(returned, LAMBDA r : IsSome(r.result))) |->
        Unwrap(SelectSeq(returned, LAMBDA r : IsSome(r.result))[n].result)]

(* C3: in a run with continue_on_failure = true the calls of               *)
(* execute_step_once go through the steps in scenario order, none left     *)
(* out, up to the last step when the run returns; a step returns no        *)
(* StepResult exactly when its last call was skipped, and the steps of the *)
(* TestResult are the StepResults of the others, one each, in order.       *)
C3_EveryStepInOrder ==
    \A d \in 1..Len(stack) :
        stack[d].scenario.config.continue_on_failure =>
            /\ stack[d].hist # <<>> => stack[d].hist[1].idx = 1
            /\ \A p \in 1..(Len(stack[d].hist) - 1) :
                  stack[d].hist[p + 1].idx \in {stack[d].hist[p].idx, stack[d].hist[p].idx + 1}
            /\ \A j \in 1..Len(stack[d].returned) :
                  /\ stack[d].returned[j].idx = j
                  /\ Calls(stack[d], j) # <<>>
                  /\ IsNone(stack[d].returned[j].result)
                        <=> Calls(stack[d], j)[Len(Calls(stack[d], j))].kind = "skip"
                  /\ IsSome(stack[d].returned[j].result)
                        => Unwrap(stack[d].returned[j].result).name = stack[d].scenario.steps[j].name
            /\ stack[d].step_results = Reported(stack[d].returned)
            /\ stack[d].pc = "done" =>
                  /\ Len(stack[d].returned) = Len(stack[d].scenario.steps)
                  /\ Unwrap(stack[d].result).steps = stack[d].step_results

(* A run that went on after a failing first step and finished.             *)
C3_Witness ==
    /\ stack # <<>>
    /\ Top.pc = "done"
    /\ Top.scenario.config.continue_on_failure
    /\ Len(Top.scenario.steps) = 2
    /\ Len(Top.step_results) = 2
    /\ ~Top.step_results[1].success

(* The message of the first failing check, in the order of the checks.     *)
FirstError(errors) ==
    errors[CHOOSE k \in 1..Len(errors) :
              IsSome(errors[k]) /\ \A m \in 1..(k - 1) : IsNone(errors[m])]

(* C4: whatever response arrives for the step about to be executed, if     *)
(* some of its declarative expectations fail then the error of the         *)
(* StepResult is the message of the first failing one.                     *)
C4_FirstFailingCheckReported ==
    (PlainStep /\ ~is_skipped(TopStep, Top.vars)
        /\ IsSome(FinalUrl(TopStep.request, Top.vars, Top.scenario.config))) =>
        \A resp \in Served(TopStep) :
            LET o == Observe(TopStep, Mutable(Top), Top.scenario.config, Top.step_idx, resp)
                errors == ExpectationErrors(TopStep, o.status, o.headers, o.body, o.parsed_json,
                                            SseOutcome(TopStep, o.sse_events, o.vars), o.vars)
            IN  (/\ ~ExecuteResponseFails(TopStep, Mutable(Top), Top.scenario.config,
                                          Top.step_idx, resp)
                 /\ \E k \in 1..Len(errors) : IsSome(errors[k]))
                => Unwrap(ExecuteResponse(TopStep, Mutable(Top), Top.scenario.config,
                                          Top.step_idx, resp, 0).result).error
                       = FirstError(errors)

(* `current` of the context a call left is the request and the response of *)
(* the StepResult the call returned.                                       *)
CurrentIsOf(e) ==
    /\ <<"current">> \in DOMAIN e.vars
    /\ IsSome(Unwrap(e.result).response)
    /\ Val(Val(e.vars[<<"current">>])[<<"res">>])[<<"status">>]
           = Num(Unwrap(Unwrap(e.result).response).status)
    /\ Val(Val(e.vars[<<"current">>])[<<"res">>])[<<"rawBody">>]
           = Str(Unwrap(Unwrap(Unwrap(e.result).response).body))
    /\ Val(Val(e.vars[<<"current">>])[<<"req">>])[<<"url">>] = Str(Unwrap(e.result).request.url)

(* C5: for a loop step with `until`, the context an iteration leaves holds *)
(* that iteration's request and response as `current`, and the first       *)
(* iteration n <= count after which `until` is true in that context is the *)
(* step's last call: the loop returns its result, after n calls and with   *)
(* no sleep after it.                                                      *)
C5_UntilEndsLoop ==
    \A d \in 1..Len(stack) : \A k \in LoopSteps(stack[d]) :
        IsSome(LoopCfg(stack[d], k).until) /\ IsNone(stack[d].scenario.steps[k].include) =>
            \A n \in 1..Len(Calls(stack[d], k)) :
                (n <= LoopCfg(stack[d], k).count
                    /\ Calls(stack[d], k)[n].kind \in {"response", "sendfail", "skip"}) =>
                    /\ IsSome(Calls(stack[d], k)[n].result) => CurrentIsOf(Calls(stack[d], k)[n])
                    /\ (/\ ExitAt(LoopCfg(stack[d], k), Calls(stack[d], k)[n])
                        /\ \A m \in 1..(n - 1) : ~ExitAt(LoopCfg(stack[d], k), Calls(stack[d], k)[m]))
                       => EndsLoopAt(stack[d], k, n)

(* C6: for a loop step without `until`, an iteration whose StepResult has  *)
(* success = TRUE is the step's last call and the loop returns its result; *)
(* for a loop step with `until`, after a successful iteration whose        *)
(* `until` is false the loop is still on: the step is called again, or is  *)
(* about to be.                                                            *)
C6_SuccessEndsLoopWithoutUntil ==
    \A d \in 1..Len(stack) : \A k \in LoopSteps(stack[d]) :
        \A n \in 1..Len(Calls(stack[d], k)) :
            (/\ n <= LoopCfg(stack[d], k).count
             /\ IsSome(Calls(stack[d], k)[n].result)
             /\ Unwrap(Calls(stack[d], k)[n].result).success) =>
                IF IsNone(LoopCfg(stack[d], k).until)
                THEN EndsLoopAt(stack[d], k, n)
                ELSE evaluate_test(Unwrap(LoopCfg(stack[d], k).until),
                                   Calls(stack[d], k)[n].vars) = "false"
                     => \/ Len(Calls(stack[d], k)) > n
                        \/ /\ stack[d].step_idx = k
                           /\ stack[d].pc \in {"exec", "sleep"}
                           /\ ~HasReturned(stack[d], k)

(* A loop without `until` left at its first, successful iteration, then a  *)
(* loop with `until` called again after a successful iteration.            *)
C6_Witness ==
    /\ stack # <<>>
    /\ Len(Top.scenario.steps) = 2
    /\ LoopSteps(Top) = {1, 2}
    /\ IsNone(LoopCfg(Top, 1).until) /\ LoopCfg(Top, 1).count >= 2
    /\ Len(Calls(Top, 1)) = 1
    /\ HasReturned(Top, 1)
    /\ IsSome(ReturnedFor(Top, 1)) /\ Unwrap(ReturnedFor(Top, 1)).success
    /\ IsSome(LoopCfg(Top, 2).until)
    /\ Len(Calls(Top, 2)) = 2
    /\ IsSome(Calls(Top, 2)[1].result) /\ Unwrap(Calls(Top, 2)[1].result).success
    /\ ~ExitAt(LoopCfg(Top, 2), Calls(Top, 2)[1])

(* C7: a loop step is called at most count + 1 times; when it has returned *)
(* and none of its iterations 1..count met the early exit, it was called   *)
(* exactly count + 1 times and the loop returned the result of the last,   *)
(* additional call.                                                        *)
C7_ReExecutedAfterLastIteration ==
    \A d \in 1..Len(stack) : \A k \in LoopSteps(stack[d]) :
        /\ Len(Calls(stack[d], k)) <= LoopCfg(stack[d], k).count + 1
        /\ (HasReturned(stack[d], k) /\ NoEarlyExit(stack[d], k)) =>
              /\ Len(Calls(stack[d], k)) = LoopCfg(stack[d], k).count + 1
              /\ ReturnedFor(stack[d], k)
                     = Calls(stack[d], k)[LoopCfg(stack[d], k).count + 1].result

(* A loop of two or more iterations that ran out and returned a result     *)
(* which differs from the one of its last iteration.                       *)
C7_Witness ==
    /\ stack # <<>>
    /\ \E k \in LoopSteps(Top) :
          /\ LoopCfg(Top, k).count >= 2
          /\ HasReturned(Top, k)
          /\ NoEarlyExit(Top, k)
          /\ Len(Calls(Top, k)) = LoopCfg(Top, k).count + 1
          /\ ReturnedFor(Top, k) # Calls(Top, k)[LoopCfg(Top, k).count].result

(* The calls that hand a request to the HTTP client.                       *)
Sends(calls) == Len(SelectSeq(calls, LAMBDA e : e.kind \in {"response", "sendfail", "readfail",
                                                            "engineerr"}))

(* C8: a loop step of count >= 1 that has returned with none of its        *)
(* iterations meeting the early exit returned the result of its count-th   *)
(* call and sent its request at most count times.                          *)
C8_LastIterationReported ==
    \A d \in 1..Len(stack) : \A k \in LoopSteps(stack[d]) :
        (/\ LoopCfg(stack[d], k).count >= 1
         /\ HasReturned(stack[d], k)
         /\ NoEarlyExit(stack[d], k)) =>
            /\ Len(Calls(stack[d], k)) >= LoopCfg(stack[d], k).count
            /\ ReturnedFor(stack[d], k) = Calls(stack[d], k)[LoopCfg(stack[d], k).count].result
            /\ Sends(Calls(stack[d], k)) <= LoopCfg(stack[d], k).count

(* C9: a step of the running scenario that is no include and whose         *)
(* condition is not "true": the call sends nothing, appends no StepResult, *)
(* starts no run, and leaves the context, the steps map, the step-key      *)
(* counters and `previous` as they were.                                   *)
C9_SkipChangesNothing ==
    [][(/\ stack # <<>>
        /\ Top.pc = "exec"
        /\ IsNone(TopStep.include)
        /\ CondNotTrue(TopStep, Top.vars)) =>
           /\ sent' = sent
           /\ Len(stack') = Len(stack)
           /\ Mutable(Top)' = Mutable(Top)
           /\ Top.step_results' = Top.step_results
           /\ Top.scenario_success' = Top.scenario_success]_vars

(* A step was skipped after an earlier step had filled the context, the    *)
(* counters and `previous`.                                                *)
C9_Witness ==
    /\ stack # <<>>
    /\ Top.hist # <<>>
    /\ Top.hist[Len(Top.hist)].kind = "skip"
    /\ Top.hist[Len(Top.hist)].idx = 2
    /\ IsSome(Top.previous_value)
    /\ DOMAIN Top.step_key_counts # {}
    /\ Len(Top.step_results) = 1

(* C10: a call of execute_step_once for an include step whose condition is *)
(* not "true" is a skip: nothing is loaded, no run is started and no       *)
(* StepResult is returned.                                                 *)
C10_ConditionBeforeInclude ==
    \A d \in 1..Len(stack) : \A p \in 1..Len(stack[d].hist) :
        (/\ IsSome(stack[d].scenario.steps[stack[d].hist[p].idx].include)
         /\ CondNotTrue(stack[d].scenario.steps[stack[d].hist[p].idx], stack[d].hist[p].vars)) =>
            /\ stack[d].hist[p].kind = "skip"
            /\ IsNone(stack[d].hist[p].result)

(* The positions of the history, before p, of the calls of earlier steps   *)
(* that recorded a `current`.                                              *)
EarlierCurrents(f, p) ==
    {q \in 1..(p - 1) : f.hist[q].kind = "response" /\ f.hist[q].idx < f.hist[p].idx}

(* C11: in the context a call that received a response works with,         *)
(* `previous` is the `current` recorded by the nearest earlier step of the *)
(* scenario that recorded one; when no earlier step did, `previous` is as  *)
(* the initial vars of the run had it.                                     *)
C11_PreviousIsPrecedingStep ==
    \A d \in 1..Len(stack) : \A p \in 1..Len(stack[d].hist) :
        stack[d].hist[p].kind = "response" =>
            IF EarlierCurrents(stack[d], p) # {}
            THEN /\ <<"previous">> \in DOMAIN stack[d].hist[p].vars
                 /\ stack[d].hist[p].vars[<<"previous">>]
                        = stack[d].hist[CHOOSE q \in EarlierCurrents(stack[d], p) :
                              \A r \in EarlierCurrents(stack[d], p) : r <= q].vars[<<"current">>]
            ELSE IF <<"previous">> \in DOMAIN stack[d].scenario.vars
                 THEN /\ <<"previous">> \in DOMAIN stack[d].hist[p].vars
                      /\ stack[d].hist[p].vars[<<"previous">>]
                             = stack[d].scenario.vars[<<"previous">>]
                 ELSE <<"previous">> \notin DOMAIN stack[d].hist[p].vars

(* The last call or sleep of the innermost run.                            *)
LastEvent == Top.hist[Len(Top.hist)]

(* C12: a call of execute_step_once whose send fails returns a StepResult  *)
(* with success = FALSE, an error and no response; the run goes on (it     *)
(* does not return Err), and the context, the steps map, the step-key      *)
(* counters and `previous` are as before the call.                         *)
C12_SendFailureIsStepFailure ==
    [][(/\ stack # <<>>
        /\ Len(stack') = Len(stack)
        /\ Len(Top.hist)' = Len(Top.hist) + 1
        /\ LastEvent'.kind = "sendfail") =>
           /\ Top.pc' # "err"
           /\ IsSome(LastEvent'.result)
           /\ ~Unwrap(LastEvent'.result).success
           /\ IsSome(Unwrap(LastEvent'.result).error)
           /\ IsNone(Unwrap(LastEvent'.result).response)
           /\ Mutable(Top)' = Mutable(Top)
           /\ SubSeq(Top.step_results', 1, Len(Top.step_results)) = Top.step_results]_vars

(* A send failed in the second step, after the first had filled the        *)
(* context, and the run goes on with a third call.                         *)
C12_Witness ==
    /\ stack # <<>>
    /\ \E p \in 2..(Len(Top.hist) - 1) :
          /\ Top.hist[p].kind = "sendfail"
          /\ Top.hist[p - 1].kind = "response"
          /\ Top.hist[p + 1].idx >= Top.hist[p].idx
    /\ IsSome(Top.previous_value)

(* A send failed because the base_url of the scenario cannot be parsed:    *)
(* nothing was handed to the HTTP client.                                  *)
C12_WitnessBadBase ==
    /\ stack # <<>>
    /\ Top.hist # <<>>
    /\ LastEvent.kind = "sendfail"
    /\ sent = 0

(* C13: no run ends with an engine error (Err, no TestResult) that a      *)
(* step of the scenario file caused: every call of execute_step_once for   *)
(* a step that got a response returns a StepResult.                        *)
C13_NoEngineErrorFromAuthoring ==
    \A d \in 1..Len(stack) :
        stack[d].pc = "err" =>
            stack[d].hist[Len(stack[d].hist)].kind # "engineerr"

TestErrors == {Some(<<"test expression failed">>), Some(<<"test expression error">>)}

(* C14: whatever response arrives for the step about to be executed: when  *)
(* a declarative expectation fails, the error of the StepResult is an      *)
(* expectation's message and none of the test's; when all pass and the     *)
(* step has a `test`, a truthy value leaves the step successful, a falsy   *)
(* one fails it with "test expression failed" and an evaluation error      *)
(* fails it with "test expression error".                                  *)
C14_TestAfterExpectations ==
    (PlainStep /\ ~is_skipped(TopStep, Top.vars) /\ IsSome(TopStep.test)
        /\ IsSome(FinalUrl(TopStep.request, Top.vars, Top.scenario.config))) =>
        \A resp \in Served(TopStep) :
            LET o == Observe(TopStep, Mutable(Top), Top.scenario.config, Top.step_idx, resp)
                e == Expect(TopStep, o)
                errors == ExpectationErrors(TopStep, o.status, o.headers, o.body, o.parsed_json,
                                            SseOutcome(TopStep, o.sse_events, o.vars), o.vars)
                outcome == evaluate_test(Unwrap(TopStep.test), e.vars)
                result == Unwrap(ExecuteResponse(TopStep, Mutable(Top), Top.scenario.config,
                                                 Top.step_idx, resp, 0).result)
            IN  ~ExecuteResponseFails(TopStep, Mutable(Top), Top.scenario.config,
                                      Top.step_idx, resp)
                => IF \E k \in 1..Len(errors) : IsSome(errors[k])
                   THEN /\ ~result.success
                        /\ \E k \in 1..Len(errors) : result.error = errors[k] /\ IsSome(errors[k])
                        /\ result.error \notin TestErrors
                   ELSE /\ outcome = "true" => result.success /\ IsNone(result.error)
                        /\ outcome = "false" =>
                               ~result.success /\ result.error = Some(<<"test expression failed">>)
                        /\ outcome = "err" =>
                               ~result.success /\ result.error = Some(<<"test expression error">>)

(* Calls of a step with `test` and no failing expectation that returned    *)
(* each of the three outcomes, and a call whose expectation failed while   *)
(* the test would have failed as well.                                     *)
C14_Witness ==
    /\ stack # <<>>
    /\ Len(Top.hist) = 2
    /\ Top.scenario.steps = <<StepTestBind, StepTestBind>>
    /\ Top.hist[1].kind = "response"
    /\ Unwrap(Top.hist[1].result).error = Some(<<"test expression error">>)
    /\ Top.hist[2].kind = "response"
    /\ Unwrap(Top.hist[2].result).error = Some(<<"test expression failed">>)

C14_WitnessTruthy ==
    /\ stack # <<>>
    /\ Len(Top.hist) = 2
    /\ Len(Top.scenario.steps) = 2
    /\ Top.scenario.steps[2] = StepTestBind
    /\ Top.hist[2].kind = "response"
    /\ Unwrap(Top.hist[2].result).success

(* The step's call returned a StepResult for a response.                   *)
Answered ==
    /\ stack # <<>>
    /\ Top.pc = "exec"
    /\ Len(stack') = Len(stack)
    /\ Len(Top.hist)' = Len(Top.hist) + 1
    /\ LastEvent'.kind = "response"

(* C15: a call that returns a failed StepResult leaves every variable      *)
(* named by the step's `save` or `bind` as it was; one that returns a      *)
(* successful StepResult leaves each `save` variable holding the value at  *)
(* its path in the response body, and each `bind` variable whose           *)
(* expression is the name of a `save` variable holding that same value.    *)
C15_SaveThenBindOnSuccess ==
    [][Answered =>
        IF ~Unwrap(LastEvent'.result).success
        THEN \A n \in DOMAIN TopStep.save \cup DOMAIN TopStep.bind :
                 MapGet(LastEvent'.vars, n) = MapGet(Top.vars, n)
        ELSE /\ \A n \in DOMAIN TopStep.save :
                    MapGet(LastEvent'.vars, n)
                        = get_value_by_path(
                              Unwrap(from_str(Unwrap(Unwrap(Unwrap(LastEvent'.result).response).body))),
                              TopStep.save[n])
             /\ \A b \in DOMAIN TopStep.bind :
                    (TopStep.bind[b].op = "path" /\ Len(TopStep.bind[b].path) = 1
                        /\ TopStep.bind[b].path[1] \in DOMAIN TopStep.save)
                    => /\ b \in DOMAIN LastEvent'.vars
                       /\ MapGet(LastEvent'.vars, b)
                              = MapGet(LastEvent'.vars, TopStep.bind[b].path[1])]_vars

(* A step with save and bind failed after an earlier call of it had        *)
(* succeeded, and one succeeded: `copy` is the value it saved.             *)
C15_Witness ==
    /\ stack # <<>>
    /\ Len(Top.hist) = 2
    /\ Len(Top.scenario.steps) = 2
    /\ Top.scenario.steps[2] = StepTestBind
    /\ Top.hist[2].kind = "response"
    /\ Unwrap(Top.hist[2].result).success
    /\ <<"copy">> \in DOMAIN Top.hist[2].vars
    /\ <<"seen">> \notin DOMAIN Top.hist[1].vars
    /\ Top.hist[2].vars[<<"copy">>] = Bool(FALSE)

C15_WitnessFailed ==
    /\ stack # <<>>
    /\ Len(Top.hist) = 2
    /\ Len(Top.scenario.steps) = 2
    /\ Top.scenario.steps[2] = StepSave
    /\ Top.hist[1].kind = "response"
    /\ Top.hist[1].vars[<<"flag">>] = Bool(TRUE)
    /\ Top.hist[2].kind = "response"
    /\ ~Unwrap(Top.hist[2].result).success
    /\ Top.hist[2].vars[<<"flag">>] = Bool(TRUE)

(* The response a StepResult carries.                                      *)
ResponseOf(result) ==
    [status |-> Unwrap(result.response).status, headers |-> Unwrap(result.response).headers,
     body |-> Unwrap(Unwrap(result.response).body)]

(* What validate_sse returns for the response, in the context the call     *)
(* validated it in.                                                        *)
SseOf(f, resp) ==
    LET step == f.scenario.steps[f.step_idx]
    IN  validate_sse(parse_sse_events(resp.body), Unwrap(step.expect.sse),
                     Observe(step, Mutable(f), f.scenario.config, f.step_idx, resp).vars)

(* C16: a call for a step with an SSE expectation leaves every variable    *)
(* the SSE validation saved in the context, with the saved value, whether  *)
(* the validation and the step failed or not.                              *)
C16_SseSavedDespiteFailure ==
    [][(Answered /\ IsSome(TopStep.expect.sse)) =>
        \A n \in DOMAIN SseOf(Top, ResponseOf(Unwrap(LastEvent'.result))).saved_vars :
            (n \notin DOMAIN TopStep.save \cup DOMAIN TopStep.bind)
            => /\ n \in DOMAIN LastEvent'.vars
               /\ LastEvent'.vars[n] = SseOf(Top, ResponseOf(Unwrap(LastEvent'.result))).saved_vars[n]]_vars

(* An SSE step whose validation failed on the second event after the first *)
(* had saved flag = 7, and under continue_on_failure the next step, whose  *)
(* condition reads flag, was skipped with flag = 7 in its context.         *)
C16_Witness ==
    /\ stack # <<>>
    /\ Len(Top.hist) = 2
    /\ Top.scenario.steps = <<StepSse, StepCondFlag>>
    /\ Top.hist[1].kind = "response"
    /\ ~Unwrap(Top.hist[1].result).success
    /\ Unwrap(Top.hist[1].result).response # None
    /\ Unwrap(Unwrap(Top.hist[1].result).response).body
           = Some(SseBody(Obj(<<"id">> :> Num(7)), Obj(<<"ref">> :> Num(8))))
    /\ Top.hist[1].vars[<<"flag">>] = Num(7)
    /\ Top.hist[2].kind = "skip"
    /\ Top.hist[2].vars[<<"flag">>] = Num(7)

(* The event the j-th ordered expectation is checked against: the first of *)
(* its type after the one the (j-1)-th matched; beyond Len(events) when    *)
(* there is none.                                                          *)
RECURSIVE MatchedAt(_, _, _, _)
MatchedAt(events, expectations, context, j) ==
    IF j = 0 THEN 0
    ELSE ScanForward(events, expand_variables(expectations[j].event, context),
                     MatchedAt(events, expectations, context, j - 1) + 1)

(* The raw value the i-th expectation saves as n from the event it         *)
(* matched, if it does.                                                    *)
SavedBy(events, expectations, context, i, n) ==
    LET at == MatchedAt(events, expectations, context, i)
    IN  IF at <= Len(events) /\ IsSome(events[at].data_json)
        THEN get_value_by_parts(Unwrap(events[at].data_json), SplitDot(expectations[i].save[n]))
        ELSE None

(* C17: whatever stream answers a step with ordered SSE expectations: if   *)
(* expectation i saved a value as n, no expectation between i and j saves  *)
(* n, and expectation j expects `{{n}}` for field k of the event it        *)
(* matched, then the field passes exactly when it equals the raw saved     *)
(* value (whatever the context holds as n); and the mapping returned holds *)
(* the saved value.                                                        *)
C17_SavedVisibleToLaterExpectation ==
    (PlainStep /\ IsSome(TopStep.expect.sse)) =>
        \A resp \in Served(TopStep) :
            LET exps == Unwrap(TopStep.expect.sse).events
                events == parse_sse_events(resp.body)
                context == Observe(TopStep, Mutable(Top), Top.scenario.config, Top.step_idx,
                                   resp).vars
                out == validate_sse(events, Unwrap(TopStep.expect.sse), context)
            IN  \A i \in 1..Len(exps) : \A n \in DOMAIN exps[i].save :
                    IsSome(SavedBy(events, exps, context, i, n)) =>
                    /\ (\A m \in (i + 1)..Len(exps) : n \notin DOMAIN exps[m].save)
                           => /\ n \in DOMAIN out.saved_vars
                              /\ out.saved_vars[n] = Unwrap(SavedBy(events, exps, context, i, n))
                    /\ \A j \in (i + 1)..Len(exps) : \A k \in DOMAIN exps[j].data :
                           (/\ \A m \in (i + 1)..(j - 1) : n \notin DOMAIN exps[m].save
                            /\ exps[j].data[k] = Str(<<"{{">> \o n \o <<"}}">>)
                            /\ MatchedAt(events, exps, context, j) <= Len(events)
                            /\ IsSome(events[MatchedAt(events, exps, context, j)].data_json)
                            /\ IsSome(get_value_by_parts(
                                   Unwrap(events[MatchedAt(events, exps, context, j)].data_json),
                                   <<k>>)))
                           => ((\E q \in 1..Len(out.errors) :
                                   out.errors[q] = <<"SSE event[">> \o NumStr(j - 1)
                                                   \o <<"]: field '">> \o k \o <<"' mismatch">>)
                               <=> get_value_by_parts(
                                       Unwrap(events[MatchedAt(events, exps, context, j)].data_json),
                                       <<k>>)
                                   # SavedBy(events, exps, context, i, n))

(* An SSE step was validated without error although the context held       *)
(* another value as flag than the 7 its first expectation saved.           *)
C17_Witness ==
    /\ stack # <<>>
    /\ Len(Top.hist) = 2
    /\ Top.scenario.steps = <<StepSave, StepSse>>
    /\ Top.hist[1].kind = "response"
    /\ Top.hist[1].vars[<<"flag">>] = Bool(TRUE)
    /\ Top.hist[2].kind = "response"
    /\ Unwrap(Top.hist[2].result).success
    /\ Top.hist[2].vars[<<"flag">>] = Num(7)

(* C18: in the context of every run, a key `steps.<k>.<p>` whose path      *)
(* <k>.<p> exists in the nested `steps` value holds the value found there. *)
C18_FlattenedAgreesWithNested ==
    \A d \in 1..Len(stack) : \A key \in DOMAIN stack[d].vars :
        (/\ Len(key) > 2
         /\ SubSeq(key, 1, 2) = <<"steps", ".">>
         /\ <<"steps">> \in DOMAIN stack[d].vars
         /\ IsSome(get_value_by_path(stack[d].vars[<<"steps">>], SubSeq(key, 3, Len(key)))))
        => stack[d].vars[key]
               = Unwrap(get_value_by_path(stack[d].vars[<<"steps">>], SubSeq(key, 3, Len(key))))

(***************************************************************************)
(* Step names: a second specification runs scenarios of one or two plain   *)
(* steps whose (last) name is any text of up to MaxNameLen characters.     *)
(***************************************************************************)
MaxNameLen == 3

NameChars == {"A", "b", "1", " ", "-", "_", "."}

RECURSIVE Names(_)
Names(n) ==
    IF n = 0 THEN {<<>>}
    ELSE Names(n - 1) \cup {Append(t, c) : t \in {u \in Names(n - 1) : Len(u) = n - 1},
                                           c \in NameChars}

NamedScenarios ==
    {[name |-> <<"root">>, steps |-> q, vars |-> EmptyMap, config |-> Config(TRUE)] :
        q \in {<<BaseStep(n)>> : n \in Names(MaxNameLen)}
               \cup {<<BaseStep(<<"x">>), BaseStep(n)>> : n \in Names(MaxNameLen)}}

SlugInit ==
    /\ input \in NamedScenarios
    /\ stack = <<>>
    /\ sent = 0

SlugNext == Start \/ StepRespond

SpecSlug == SlugInit /\ [][SlugNext]_vars

(* Lower-cased alphanumerics, with every maximal run of other characters   *)
(* as one "_".                                                             *)
RECURSIVE RunsCollapsed(_)
RunsCollapsed(name) ==
    IF name = <<>> THEN <<>>
    ELSE IF IsAsciiAlphanumeric(Head(name))
    THEN <<ToAsciiLowercase(Head(name))>> \o RunsCollapsed(Tail(name))
    ELSE IF Len(name) > 1 /\ ~IsAsciiAlphanumeric(name[2])
    THEN RunsCollapsed(Tail(name))
    ELSE <<"_">> \o RunsCollapsed(Tail(name))

(* s without its leading and trailing "_".                                 *)
Stripped(s) ==
    LET inner == {i \in 1..Len(s) : s[i] # "_"}
    IN  IF inner = {} THEN <<>>
        ELSE SubSeq(s, CHOOSE i \in inner : \A j \in inner : i <= j,
                       CHOOSE i \in inner : \A j \in inner : j <= i)

KeyFor(slug, idx) == IF slug = <<>> THEN <<"step">> \o NumStr(idx) ELSE slug

(* The steps keys the p-th call added to `steps`.                          *)
StepsKeys(context) ==
    IF <<"steps">> \in DOMAIN context THEN DOMAIN Val(context[<<"steps">>]) ELSE {}

NewKeys(f, p) ==
    StepsKeys(f.hist[p].vars) \ (IF p = 1 THEN {} ELSE StepsKeys(f.hist[p - 1].vars))

KeyIs(f, p, key) ==
    (/\ f.hist[p].kind = "response"
     /\ IsNone(f.scenario.steps[f.hist[p].idx].id)
     /\ p = 1 \/ (/\ f.hist[p - 1].kind = "response"
                  /\ key \notin DOMAIN Val(f.hist[p - 1].vars[<<"steps">>])))
    => NewKeys(f, p) = {key}

(* C19 as stated: the key a step without id gets (when no earlier step has *)
(* it) is its name with alphanumerics lower-cased and every maximal run of *)
(* other characters as one "_", stripped of leading and trailing "_", or   *)
(* step<N> when that is empty.                                             *)
C19_KeyIsSlugOfName ==
    \A d \in 1..Len(stack) : \A p \in 1..Len(stack[d].hist) :
        KeyIs(stack[d], p,
              KeyFor(Stripped(RunsCollapsed(stack[d].scenario.steps[stack[d].hist[p].idx].name)),
                     stack[d].hist[p].idx))

(* The name without the characters that are neither alphanumeric nor       *)
(* whitespace, "-" or "_".                                                 *)
Kept(name) ==
    SelectSeq(name, LAMBDA c : IsAsciiAlphanumeric(c) \/ IsWhitespace(c) \/ c \in {"-", "_"})

(* What the code does instead: only whitespace, "-" and "_" become "_"     *)
(* (one per run); every other non-alphanumeric character is dropped and    *)
(* separates nothing.                                                      *)
KeyIsSlugOfKeptName ==
    \A d \in 1..Len(stack) : \A p \in 1..Len(stack[d].hist) :
        KeyIs(stack[d], p,
              KeyFor(Stripped(RunsCollapsed(
                         Kept(stack[d].scenario.steps[stack[d].hist[p].idx].name))),
                     stack[d].hist[p].idx))

(* The step "A.b" got the key "ab".                                        *)
KeyOfDottedName ==
    /\ stack # <<>>
    /\ Top.scenario.steps = <<BaseStep(<<"A", ".", "b">>)>>
    /\ Len(Top.hist) = 1
    /\ DOMAIN Val(Top.hist[1].vars[<<"steps">>]) = {<<"a", "b">>}

(* The second step, named " . ", got the key "step2".                      *)
KeyOfEmptySlug ==
    /\ stack # <<>>
    /\ Top.scenario.steps = <<BaseStep(<<"x">>), BaseStep(<<" ", ".", " ">>)>>
    /\ Len(Top.hist) = 2
    /\ DOMAIN Val(Top.hist[2].vars[<<"steps">>]) = {<<"x">>, <<"step", "2">>}

(* The calls of a run that wrote an entry into its steps map: those that   *)
(* got a response and the include steps whose run returned.                *)
Entered(f) ==
    SelectSeq(f.hist, LAMBDA e : e.kind \in {"response", "include"} /\ IsSome(e.result))

(* C20: no entry of a run's steps map is overwritten: the map holds one    *)
(* key per call that wrote an entry, include steps included.               *)
C20_StepKeysDistinct ==
    \A d \in 1..Len(stack) :
        Cardinality(DOMAIN stack[d].steps_map) = Len(Entered(stack[d]))

(* The steps at or before idx whose call got a response and whose base key *)
(* is that of step idx.                                                    *)
SameBase(f, idx) ==
    {j \in 1..idx :
        /\ BaseStepKey(f.scenario.steps[j], j) = BaseStepKey(f.scenario.steps[idx], idx)
        /\ \E q \in 1..Len(f.hist) : f.hist[q].idx = j /\ f.hist[q].kind = "response"}

(* The k-th step with a base key got <base>_k (the first got <base>).       *)
KthStepKey ==
    \A d \in 1..Len(stack) : \A p \in 1..Len(stack[d].hist) :
        (/\ stack[d].hist[p].kind = "response"
         /\ stack[d].hist[p].i = 0
         /\ p = 1 \/ stack[d].hist[p - 1].kind \in {"response", "skip"})
        => LET f == stack[d]
               idx == f.hist[p].idx
               k == Cardinality(SameBase(f, idx))
               base == BaseStepKey(f.scenario.steps[idx], idx)
           IN  (IF k = 1 THEN base ELSE base \o <<"_">> \o NumStr(k))
                   \in NewKeys(f, p)

(***************************************************************************)
(* The dot-path resolvers: a third specification applies the four of them  *)
(* to one value and one path of up to MaxPathLen characters.               *)
(***************************************************************************)
(* validator.rs 8-28: the loop of save_variables, without skipping.        *)
get_by_json_path(json, path) == save_resolve(json, SplitDot(path))

(* sse.rs 364-381: the loop of get_value_by_path, without the early return *)
(* for the empty path.                                                     *)
get_by_path(value, path) == get_value_by_parts(value, SplitDot(path))

MaxPathLen == 3

PathChars == {"a", "0", "."}

RECURSIVE Paths(_)
Paths(n) ==
    IF n = 0 THEN {<<>>}
    ELSE Paths(n - 1) \cup {Append(t, c) : t \in {u \in Paths(n - 1) : Len(u) = n - 1},
                                           c \in PathChars}

PathValues ==
    {Obj(<<"a">> :> Arr(<<Num(1), Obj(<<"a">> :> Bool(TRUE))>>)),
     Arr(<<Obj(<<"a">> :> Num(2)), Arr(<<Null>>)>>),
     Obj(<<"0">> :> Num(3) @@ <<"a">> :> Obj(<<"0">> :> Null)),
     Obj(<<>> :> Num(9) @@ <<"a">> :> Num(1)),
     Num(5)}

PathInit ==
    /\ input \in [value : PathValues, path : Paths(MaxPathLen)]
    /\ stack = <<>>
    /\ sent = 0

(* Each resolver is called once on the input.                              *)
ResolvePath ==
    /\ stack = <<>>
    /\ stack' = <<[expectation |-> get_value_by_path(input.value, input.path),
                   save |-> save_resolve(input.value, SplitDot(input.path)),
                   sse_save |-> get_by_path(input.value, input.path),
                   validator |-> get_by_json_path(input.value, input.path)]>>
    /\ UNCHANGED <<input, sent>>

PathNext == ResolvePath

SpecPath == PathInit /\ [][PathNext]_vars

(* C21: the four resolvers return the same node, or all none.              *)
C21_ResolversAgree ==
    stack # <<>> =>
        /\ stack[1].save = stack[1].expectation
        /\ stack[1].sse_save = stack[1].expectation
        /\ stack[1].validator = stack[1].expectation

(* They agree on the paths none of whose segments is empty.                *)
ResolversAgreeOnFullSegments ==
    (stack # <<>> /\ \A i \in 1..Len(SplitDot(input.path)) : SplitDot(input.path)[i] # <<>>)
        => C21_ResolversAgree

(* The two resolvers that skip empty segments agree on every path, and so  *)
(* do the two that do not.                                                 *)
ResolversAgreeInPairs ==
    stack # <<>> =>
        /\ stack[1].sse_save = stack[1].expectation
        /\ stack[1].validator = stack[1].save

(***************************************************************************)
(* Single checks: a fourth specification runs scenarios of one or two      *)
(* steps that each exercise one check of execute_step_once.                *)
(***************************************************************************)
(* GET /n, json_lengths items -> n                                         *)
StepLengths(n) ==
    [BaseStep(<<"n">>) EXCEPT !.request.url = <<"/", "n">>,
                              !.expect.json_lengths = <<"items">> :> n]

UnitMenu == {StepLengths(n) : n \in 0..MaxLength}

UnitScenarios ==
    {[name |-> <<"root">>, steps |-> q, vars |-> EmptyMap, config |-> Config(c)] :
        q \in {<<m>> : m \in UnitMenu} \cup {<<m, n>> : m \in UnitMenu, n \in UnitMenu},
        c \in BOOLEAN}

(* include child.yaml with override vars                                   *)
StepIncludeWith(overrides) ==
    [BaseStep(<<"s", "u", "b">>) EXCEPT
        !.include = Some([path |-> <<"child">>, vars |-> overrides])]

(* No override; a literal; a text with a placeholder.                      *)
Overrides ==
    {EmptyMap, <<"flag">> :> Bool(TRUE), <<"flag">> :> Str(<<"{{", "who", "}}">>)}

(* The parent defines flag and who, or who only; who may hold a quote.     *)
ParentVars ==
    {(<<"flag">> :> Str(<<"p">>)) @@ (<<"who">> :> Str(<<"w">>)),
     <<"who">> :> Str(<<"w">>),
     <<"who">> :> Str(<<"\"">>)}

IncludeScenarios ==
    {[name |-> <<"root">>, steps |-> <<StepIncludeWith(o)>>, vars |-> v, config |-> Config(FALSE)] :
        o \in Overrides, v \in ParentVars}

(* A POST with a JSON body and the caller's headers.                       *)
StepPost(headers) ==
    [BaseStep(<<"p">>) EXCEPT !.request.method = "POST",
                              !.request.headers = headers,
                              !.request.body = Some(Obj(<<"id">> :> Num(7)))]

(* No Content-Type; one as written; one in lower case; another header.     *)
CallerHeaders ==
    {EmptyMap,
     ContentType :> <<"text/plain">>,
     ToLowercase(ContentType) :> <<"text/plain">>,
     <<"X">> :> <<"1">>}

DefaultHeaders == {EmptyMap, ContentType :> <<"text/xml">>}

BodyScenarios ==
    {[name |-> <<"root">>, steps |-> <<[StepPost(h) EXCEPT !.request.body = b]>>, vars |-> EmptyMap,
      config |-> [Config(FALSE) EXCEPT !.headers = d]] :
        h \in CallerHeaders, d \in DefaultHeaders, b \in {None, Some(Obj(<<"id">> :> Num(7)))}}

(* Loop steps without `until`: the base interval below or above the       *)
(* maximum, with and without a multiplier and a maximum (whole seconds).   *)
BackoffConfigs ==
    {[count |-> MaxCount + 1, until |-> None, interval |-> n, multiplier |-> m,
      max_interval |-> x] : n \in {1, 4}, m \in {None, Some(2)}, x \in {None, Some(3)}}

BackoffScenarios ==
    {[name |-> <<"root">>,
      steps |-> <<[BaseStep(<<"l">>) EXCEPT !.loop_config = Some(cfg)]>>,
      vars |-> EmptyMap, config |-> Config(FALSE)] : cfg \in BackoffConfigs}

UnitInit ==
    /\ input \in UnitScenarios \cup IncludeScenarios \cup BodyScenarios \cup BackoffScenarios
    /\ stack = <<>>
    /\ sent = 0

UnitNext == Start \/ StepRespond \/ IncludeEnter \/ IncludeReturn \/ Sleep

SpecUnit == UnitInit /\ [][UnitNext]_vars

(* The number of elements of an array or an object.                        *)
ElementCount(value) ==
    IF Tag(value) = "arr" THEN Len(Val(value)) ELSE Cardinality(DOMAIN Val(value))

(* C22: whatever response with the expected status arrives for a step      *)
(* whose only expectation beyond the status is one json_lengths entry      *)
(* path -> n: the step succeeds exactly when the body is JSON in which the *)
(* path resolves to an array or object of n elements; otherwise its error  *)
(* is that of the case: path missing, not an array or object, or another   *)
(* element count.                                                          *)
C22_JsonLengthsExact ==
    (PlainStep /\ DOMAIN TopStep.expect.json_lengths # {}
        /\ IsSome(FinalUrl(TopStep.request, Top.vars, Top.scenario.config))) =>
        \A resp \in Served(TopStep) : \A path \in DOMAIN TopStep.expect.json_lengths :
            LET n == TopStep.expect.json_lengths[path]
                parsed == from_str(resp.body)
                node == IF IsSome(parsed) THEN get_value_by_path(Unwrap(parsed), path) ELSE None
                result == Unwrap(ExecuteResponse(TopStep, Mutable(Top), Top.scenario.config,
                                                 Top.step_idx, resp, 0).result)
            IN  resp.status = TopStep.expect.status =>
                /\ result.success <=> (/\ IsSome(node)
                                       /\ Tag(Unwrap(node)) \in {"arr", "obj"}
                                       /\ ElementCount(Unwrap(node)) = n)
                /\ (IsSome(parsed) /\ IsNone(node))
                       => result.error = Some(<<"json path '">> \o path \o <<"' missing">>)
                /\ (IsSome(node) /\ Tag(Unwrap(node)) \notin {"arr", "obj"})
                       => result.error
                              = Some(<<"json path '">> \o path \o <<"' is not an array or object">>)
                /\ (IsSome(node) /\ Tag(Unwrap(node)) \in {"arr", "obj"}
                        /\ ElementCount(Unwrap(node)) # n)
                       => result.error \in
                              {Some(<<"json path '">> \o path \o <<"' array length mismatch">>),
                               Some(<<"json path '">> \o path \o <<"' object size mismatch">>)}

(* items -> 0 passed on {"items":{}} and then failed on {"items":[1]}.     *)
C22_Witness ==
    /\ stack # <<>>
    /\ Len(Top.hist) = 2
    /\ Top.scenario.steps = <<StepLengths(0), StepLengths(0)>>
    /\ Unwrap(Top.hist[1].result).success
    /\ Unwrap(Unwrap(Top.hist[1].result).response).body
           = Some(ValueToString(Obj(<<"items">> :> Obj(EmptyMap))))
    /\ ~Unwrap(Top.hist[2].result).success
    /\ Unwrap(Unwrap(Top.hist[2].result).response).body
           = Some(ValueToString(Obj(<<"items">> :> Arr(<<Num(1)>>))))

(* The value an override stands for: a text with its placeholders          *)
(* expanded in the parent's context, any other value itself.               *)
OverrideValue(value, parent_vars) ==
    IF Tag(value) = "str" THEN Str(expand_variables(Val(value), parent_vars)) ELSE value

(* The include step a run was entered through, the file it loaded and the  *)
(* parent's context: the frame below is suspended in that step.            *)
IncludeOf(d) == Unwrap(stack[d - 1].scenario.steps[stack[d - 1].step_idx].include)
OwnVars(d) == Unwrap(load_scenario(expand_variables(IncludeOf(d).path, stack[d - 1].vars))).vars

InitialVarsAre(d, keys) ==
    \A k \in keys :
        /\ k \in DOMAIN stack[d].scenario.vars
        /\ stack[d].scenario.vars[k] =
               IF k \in DOMAIN IncludeOf(d).vars
               THEN OverrideValue(IncludeOf(d).vars[k], stack[d - 1].vars)
               ELSE IF k \in DOMAIN OwnVars(d) THEN OwnVars(d)[k]
               ELSE stack[d - 1].vars[k]

(* C23: the scenario an include step runs starts with, for each key, the   *)
(* override of the include step if it has one, else the value the file     *)
(* defines, else the value of the parent's context.                        *)
C23_IncludeVarsPrecedence ==
    \A d \in 2..Len(stack) :
        InitialVarsAre(d, DOMAIN IncludeOf(d).vars \cup DOMAIN OwnVars(d)
                          \cup DOMAIN stack[d - 1].vars)

(* The same for the keys whose override, if any, is JSON text once its     *)
(* placeholders are expanded.                                              *)
IncludeVarsPrecedenceWhenJson ==
    \A d \in 2..Len(stack) :
        InitialVarsAre(d, {k \in DOMAIN IncludeOf(d).vars \cup DOMAIN OwnVars(d)
                                 \cup DOMAIN stack[d - 1].vars :
                              k \in DOMAIN IncludeOf(d).vars =>
                                  IsSome(from_str(expand_variables(
                                      ValueToString(IncludeOf(d).vars[k]), stack[d - 1].vars)))})

(* An included run returns Ok to the include step of its parent.           *)
IncludeCompletes ==
    /\ Len(stack) >= 2
    /\ Top.pc = "done"
    /\ Len(stack') = Len(stack) - 1

IncludeKey(d) ==
    LET step == stack[d - 1].scenario.steps[stack[d - 1].step_idx]
    IN  IF IsSome(step.id) THEN Unwrap(step.id) ELSE slugify(step.name)

(* C24: when an include step completes, `steps` in the parent's context    *)
(* holds, for every step result of the included run, its success under     *)
(* <include-key>.steps.<child-step-name>.success.                          *)
C24_IncludeSummaryInContext ==
    [][IncludeCompletes =>
        \A j \in 1..Len(Top.step_results) :
            (\A k \in (j + 1)..Len(Top.step_results) :
                 Top.step_results[k].name # Top.step_results[j].name)
            => /\ <<"steps">> \in DOMAIN stack'[Len(stack')].vars
               /\ get_value_by_parts(stack'[Len(stack')].vars[<<"steps">>],
                       <<IncludeKey(Len(stack)), <<"steps">>, Top.step_results[j].name,
                         <<"success">>>>)
                      = Some(Bool(Top.step_results[j].success))]_vars

(* The same of the steps map the runner keeps beside the context.          *)
IncludeSummaryInStepsMap ==
    [][IncludeCompletes =>
        \A j \in 1..Len(Top.step_results) :
            (\A k \in (j + 1)..Len(Top.step_results) :
                 Top.step_results[k].name # Top.step_results[j].name)
            => get_value_by_parts(Obj(stack'[Len(stack')].steps_map),
                   <<IncludeKey(Len(stack)), <<"steps">>, Top.step_results[j].name,
                     <<"success">>>>)
                  = Some(Bool(Top.step_results[j].success))]_vars

(* C25: an include step leaves the parent's variable context as it was     *)
(* when the include step was entered: every key keeps its value, and no    *)
(* key of the included run (saved or bound variables, `current`,           *)
(* `previous`) is added.                                                   *)
C25_IncludeKeepsParentContext ==
    [][IncludeCompletes =>
        LET parent == stack[Len(stack) - 1]
        IN  /\ parent.hist[Len(parent.hist)].kind = "include"
            /\ stack'[Len(stack')].vars = parent.hist[Len(parent.hist)].vars]_vars

(* An included run that saved `flag` and set `current` has returned with   *)
(* success to a parent whose context still holds its own `flag` and has   *)
(* no `current`.                                                           *)
C25_Witness ==
    /\ Len(stack) = 1
    /\ Len(Top.hist) >= 1
    /\ LET e == Top.hist[Len(Top.hist)]
       IN  /\ e.kind = "include"
           /\ IsSome(e.result)
           /\ Unwrap(e.result).success
           /\ Files[<<"child">>].steps[1].save = <<"flag">> :> <<"ready">>
           /\ <<"flag">> \in DOMAIN Top.vars
           /\ Top.vars[<<"flag">>] = Top.scenario.vars[<<"flag">>]
           /\ Top.vars[<<"flag">>] # Bool(TRUE)
           /\ <<"current">> \notin DOMAIN Top.vars

(* C26: a request with a body for which the caller (request headers or     *)
(* the configuration's default headers) set a Content-Type is sent with    *)
(* that Content-Type only.                                                 *)
C26_CallerContentTypeOnly ==
    [][(Answered /\ IsSome(TopStep.request.body)) =>
        LET caller == CallerContentType(TopStep.request, Top.vars, Top.scenario.config)
            on_wire == WireHeaders(TopStep.request, Top.vars, Top.scenario.config)
        IN  caller # {} =>
                \E v \in caller : on_wire[ToLowercase(ContentType)] = <<v>>]_vars

(* When the caller set none, the request with a body is sent with          *)
(* application/json, and a request without a body gets no Content-Type     *)
(* of the adapter's.                                                       *)
DefaultContentTypeWhenUnset ==
    [][Answered =>
        LET caller == CallerContentType(TopStep.request, Top.vars, Top.scenario.config)
            wire == WireHeaders(TopStep.request, Top.vars, Top.scenario.config)
        IN  /\ (IsSome(TopStep.request.body) /\ caller = {})
                => wire[ToLowercase(ContentType)] = << <<"application/json">> >>
            /\ (IsNone(TopStep.request.body) /\ caller = {})
                => ToLowercase(ContentType) \notin DOMAIN wire]_vars

(* The loop controller sleeps for the current interval.                    *)
Sleeps ==
    /\ stack # <<>>
    /\ Top.pc = "sleep"
    /\ Len(stack') = Len(stack)
    /\ Len(Top.hist)' = Len(Top.hist) + 1
    /\ LastEvent'.kind = "sleep"

(* C27: when max_interval is set, no sleep between two iterations of a     *)
(* loop step lasts longer than max_interval.                               *)
C27_SleepAtMostMaxInterval ==
    [][Sleeps =>
        LET loop_cfg == Unwrap(TopStep.loop_config)
        IN  IsSome(loop_cfg.max_interval) => Top.interval <= Unwrap(loop_cfg.max_interval)]_vars

(* With a multiplier, every sleep after the first lasts at most            *)
(* max_interval.                                                           *)
LaterSleepAtMostMaxInterval ==
    [][Sleeps =>
        LET loop_cfg == Unwrap(TopStep.loop_config)
        IN  (IsSome(loop_cfg.max_interval) /\ IsSome(loop_cfg.multiplier) /\ Top.i >= 1)
            => Top.interval <= Unwrap(loop_cfg.max_interval)]_vars

(***************************************************************************)
(* bin/muon.rs: main and run_all_tests.  The input is one invocation: the  *)
(* outcome of loading, the loaded scenarios (whether the name filter       *)
(* selects each, and what run returns for it), and whether the remote      *)
(* report is configured.  The frame is the state of main.                  *)
(***************************************************************************)
MaxScenarios == 2

Outcomes == {"pass", "fail", "err"}

Loaded == UNION {[1..n -> [selected : BOOLEAN, outcome : Outcomes]] : n \in 1..MaxScenarios}

Invocations ==
    [load_ok : BOOLEAN, scenarios : Loaded, api : BOOLEAN]

CliInit ==
    /\ input \in Invocations
    /\ stack = <<>>
    /\ sent = 0

(* The scenarios left by the name filter (lines 297-304).                  *)
Filtered(scenarios) == SelectSeq(scenarios, LAMBDA sc : sc.selected)

(* Lines 370-372, 297-311: prepare_config and the filter.  An Err of       *)
(* either returns from main with a non-zero status.                        *)
MainStart ==
    /\ stack = <<>>
    /\ stack' = IF ~input.load_ok \/ Filtered(input.scenarios) = <<>>
                THEN <<[pc |-> "exited", idx |-> 1, all_success |-> TRUE, results |-> <<>>,
                        submitted |-> "none", status |-> Some(1)]>>
                ELSE <<[pc |-> "run", idx |-> 1, all_success |-> TRUE, results |-> <<>>,
                        submitted |-> "none", status |-> None]>>
    /\ UNCHANGED <<input, sent>>

(* Lines 313-350: one turn of the loop over the filtered scenarios.        *)
RunOne ==
    /\ stack # <<>>
    /\ Top.pc = "run"
    /\ LET filtered == Filtered(input.scenarios)
           outcome == filtered[Top.idx].outcome
       IN  SetTop([Top EXCEPT
                      !.all_success = IF outcome = "pass" THEN @ ELSE FALSE,
                      !.results = IF outcome = "err" THEN @ ELSE Append(@, outcome = "pass"),
                      !.idx = @ + 1,
                      !.pc = IF Top.idx = Len(filtered) THEN "report" ELSE "run"])
    /\ UNCHANGED <<input, sent>>

(* Lines 388-414: the report is submitted; Ok and Err are both logged.     *)
SubmitReport ==
    /\ stack # <<>>
    /\ Top.pc = "report"
    /\ input.api
    /\ \E ok \in BOOLEAN :
          SetTop([Top EXCEPT !.submitted = IF ok THEN "ok" ELSE "err", !.pc = "exit"])
    /\ sent' = sent + 1
    /\ UNCHANGED input

(* Line 389: no api_url or no api_key.                                     *)
SkipReport ==
    /\ stack # <<>>
    /\ Top.pc = "report"
    /\ ~input.api
    /\ SetTop([Top EXCEPT !.pc = "exit"])
    /\ UNCHANGED <<input, sent>>

(* Lines 417-421: exit(1) unless every scenario succeeded.                 *)
MainExit ==
    /\ stack # <<>>
    /\ Top.pc = "exit"
    /\ SetTop([Top EXCEPT !.pc = "exited",
                          !.status = Some(IF Top.all_success THEN 0 ELSE 1)])
    /\ UNCHANGED <<input, sent>>

CliNext == MainStart \/ RunOne \/ SubmitReport \/ SkipReport \/ MainExit

SpecCli == CliInit /\ [][CliNext]_vars

Exited == stack # <<>> /\ Top.pc = "exited"

(* Some scenario the filter selected failed or made run return Err, or     *)
(* the scenarios could not be loaded.                                      *)
SomeScenarioFailed ==
    \/ ~input.load_ok
    \/ \E i \in 1..Len(input.scenarios) :
          input.scenarios[i].selected /\ input.scenarios[i].outcome # "pass"

(* C28: the exit status is non-zero exactly when some scenario failed or   *)
(* could not be run, whatever became of the report submission.             *)
C28_ExitStatusIsScenarioOutcome ==
    Exited => (Unwrap(Top.status) # 0 <=> SomeScenarioFailed)

(* The exit status is a function of loading, filter and scenario outcomes  *)
(* alone: non-zero exactly when loading failed, the filter selected        *)
(* nothing, or a selected scenario failed or could not be run.             *)
ExitStatusIgnoresSubmission ==
    Exited => (Unwrap(Top.status) # 0
               <=> (SomeScenarioFailed \/ Filtered(input.scenarios) = <<>>))

(* The submission failed and the process exits with 0.                     *)
FailedSubmissionExitsZero ==
    Exited /\ Top.submitted = "err" /\ Unwrap(Top.status) = 0

(***************************************************************************)
(* api_client.rs: TachyonOpsClient::submit_report.  The input is what the  *)
(* server does with each send in turn; the frame is the state of one call. *)
(***************************************************************************)
max_retries == 3

(* A 2xx response whose body is or is not a SubmitResponse, a 5xx          *)
(* response, a response of any other status, no response.                  *)
Replies == {"success", "success_unparsed", "server_error", "other_status", "network_error"}

ReplySeqs == [1..(max_retries + 2) -> Replies]

ApiInit ==
    /\ input \in ReplySeqs
    /\ stack = <<>>
    /\ sent = 0

(* Lines 46-56: the call starts with attempt 0.                            *)
SubmitStart ==
    /\ stack = <<>>
    /\ stack' = <<[pc |-> "send", attempt |-> 0, seen |-> <<>>, delays |-> <<>>, result |-> None]>>
    /\ UNCHANGED <<input, sent>>

Sending(reply) ==
    /\ stack # <<>>
    /\ Top.pc = "send"
    /\ input[sent + 1] = reply
    /\ sent' = sent + 1
    /\ UNCHANGED input

Return(f, reply, result) ==
    [f EXCEPT !.pc = "returned", !.seen = Append(@, reply), !.result = Some(result)]

(* Lines 88-89, 109-110: sleep 500 * 2^attempt ms, then `continue`; the    *)
(* for loop ends after attempt max_retries and falls to unreachable!().    *)
Retry(f, reply) ==
    [f EXCEPT !.pc = IF f.attempt + 1 <= max_retries THEN "send" ELSE "unreachable",
              !.seen = Append(@, reply),
              !.delays = Append(@, 500 * 2 ^ f.attempt),
              !.attempt = @ + 1]

(* Lines 70-76: a 2xx response; the body is parsed with `?`.               *)
SendSuccess ==
    \E reply \in {"success", "success_unparsed"} :
        /\ Sending(reply)
        /\ SetTop(Return(Top, reply, IF reply = "success" THEN "Ok" ELSE "Err"))

ServerErrorAlwaysRetried ==
    /\ Sending("server_error")
    /\ SetTop(Retry(Top, "server_error"))

(* Lines 77-93: a 5xx response.                                            *)
SendServerError ==
    /\ Sending("server_error")
    /\ SetTop(IF Top.attempt < max_retries THEN Retry(Top, "server_error")
              ELSE Return(Top, "server_error", "Err"))

(* Lines 94-98: any other status.                                          *)
SendOtherStatus ==
    /\ Sending("other_status")
    /\ SetTop(Return(Top, "other_status", "Err"))

(* Lines 99-116: send returned Err.                                        *)
SendNetworkError ==
    /\ Sending("network_error")
    /\ SetTop(IF Top.attempt < max_retries THEN Retry(Top, "network_error")
              ELSE Return(Top, "network_error", "Err"))

ApiNext == SubmitStart \/ SendSuccess \/ SendServerError \/ SendOtherStatus \/ SendNetworkError

(* A send completes: the client's 30 s timeout bounds it, and a sleep ends. *)
SpecApi == ApiInit /\ [][ApiNext]_vars /\ WF_vars(ApiNext)

SubmitReturned == stack # <<>> /\ Top.pc = "returned"

Transient(reply) == reply \in {"server_error", "network_error"}

(* At most max_retries + 1 sends, a retry only after a 5xx response or a   *)
(* network error, and unreachable!() not reached.                          *)
BoundedRetries ==
    /\ sent <= max_retries + 1
    /\ stack # <<>> =>
          /\ Top.pc # "unreachable"
          /\ Len(Top.seen) = sent
          /\ \A k \in 1..Len(Top.seen) :
                (k < Len(Top.seen) \/ Top.pc = "send") => Transient(Top.seen[k])

(* What the call returns after its last reply, given what a 2xx reply      *)
(* with an unparsable body returns.                                        *)
ReturnsBy(unparsed) ==
    SubmitReturned =>
        LET last == Top.seen[Len(Top.seen)]
            result == Unwrap(Top.result)
        IN  /\ last = "success" => result = "Ok"
            /\ last = "success_unparsed" => result = unparsed
            /\ last = "other_status" => result = "Err"
            /\ Transient(last) => (result = "Err" /\ sent = max_retries + 1)

(* C29: submit_report terminates after at most 4 sends; it retries only    *)
(* after a 5xx response or a network error, returns Ok at once on a 2xx    *)
(* response and Err at once on any other status, and never reaches         *)
(* unreachable!().                                                         *)
C29_SubmitReportOkOnSuccess ==
    BoundedRetries /\ ReturnsBy("Ok")

(* C29, with the 2xx case as the code has it: a 2xx response ends the      *)
(* call at once, with Ok when its body parses as a SubmitResponse and      *)
(* with Err when it does not.                                              *)
C29_SubmitReportTerminates ==
    /\ [](BoundedRetries /\ ReturnsBy("Err"))
    /\ <>[]SubmitReturned

(* Three transient failures were retried and the fourth send was answered  *)
(* with a 2xx response.                                                    *)
C29_Witness ==
    /\ SubmitReturned
    /\ sent = max_retries + 1
    /\ Top.seen[sent] = "success"
    /\ Top.result = Some("Ok")
    /\ Top.delays = <<500, 1000, 2000>>

(***************************************************************************)
(* runner.rs: two calls of run on one DefaultTestRunner, interleaved at    *)
(* their suspension points (the request of a step).  The input is the two  *)
(* scenarios; stack[t] is the state of call t (its locals once it has      *)
(* started, and the responses it has been served); `sent` counts the       *)
(* requests of both calls through the shared client.                       *)
(***************************************************************************)
PairMenu == {StepSave, StepCondFlag, StepTestBind}

PairScenarios ==
    {[name |-> <<"root">>, steps |-> <<m, n>>,
      vars |-> <<"flag">> :> Str(<<" ", "T", "R", "U", "E">>), config |-> Config(TRUE)] :
        m \in PairMenu, n \in PairMenu}

PairInit ==
    /\ input \in [1..2 -> PairScenarios]
    /\ stack = [t \in 1..2 |-> [f |-> None, served |-> <<>>]]
    /\ sent = 0

Call(t) == Unwrap(stack[t].f)
CallStep(t) == Call(t).scenario.steps[Call(t).step_idx]
Calling(t) == IsSome(stack[t].f) /\ Call(t).pc = "exec"

(* Lines 1127-1138: a call of run starts on its own clone of the           *)
(* scenario's vars.                                                        *)
PairStart ==
    \E t \in 1..2 :
        /\ IsNone(stack[t].f)
        /\ stack' = [stack EXCEPT ![t].f = Some(RunStart(input[t]))]
        /\ UNCHANGED <<input, sent>>

(* Lines 608-619 in one of the calls.                                      *)
PairSkip ==
    \E t \in 1..2 :
        /\ Calling(t)
        /\ is_skipped(CallStep(t), Call(t).vars)
        /\ stack' = [stack EXCEPT ![t].f = Some(AfterOnce(Log(Call(t), "skip", None), None))]
        /\ UNCHANGED <<input, sent>>

PairRespondSharedContext ==
    \E t \in 1..2 :
        /\ Calling(t)
        /\ ~is_skipped(CallStep(t), Call(t).vars)
        /\ \E resp \in Served(CallStep(t)), duration_ms \in Durations :
              LET other == stack[3 - t].f
                  f == IF IsSome(other)
                       THEN [Call(t) EXCEPT !.vars = MapExtend(@, Unwrap(other).vars)]
                       ELSE Call(t)
              IN  /\ ~ExecuteResponseFails(CallStep(t), Mutable(f), f.scenario.config,
                                           f.step_idx, resp)
                  /\ stack' = [stack EXCEPT
                         ![t].f = Some(Responded(f,
                                     ExecuteResponse(CallStep(t), Mutable(f), f.scenario.config,
                                                     f.step_idx, resp, duration_ms))),
                         ![t].served = Append(@, [resp |-> resp, duration_ms |-> duration_ms,
                                                  at |-> sent + 1])]
        /\ sent' = sent + 1
        /\ UNCHANGED input

(* Lines 651-1120 in one of the calls: its response arrives and is         *)
(* processed on the call's own locals.                                     *)
PairRespond ==
    \E t \in 1..2 :
        /\ Calling(t)
        /\ ~is_skipped(CallStep(t), Call(t).vars)
        /\ \E resp \in Served(CallStep(t)), duration_ms \in Durations :
              LET f == Call(t)
              IN  /\ ~ExecuteResponseFails(CallStep(t), Mutable(f), f.scenario.config,
                                           f.step_idx, resp)
                  /\ stack' = [stack EXCEPT
                         ![t].f = Some(Responded(f,
                                     ExecuteResponse(CallStep(t), Mutable(f), f.scenario.config,
                                                     f.step_idx, resp, duration_ms))),
                         ![t].served = Append(@, [resp |-> resp, duration_ms |-> duration_ms,
                                                  at |-> sent + 1])]
        /\ sent' = sent + 1
        /\ UNCHANGED input

PairNext == PairStart \/ PairSkip \/ PairRespond

SpecPair == PairInit /\ [][PairNext]_vars

(* A call of run alone, from f on, served the given responses in turn; it  *)
(* stops where the next response is awaited.                               *)
RECURSIVE Alone(_, _)
Alone(f, served) ==
    IF f.pc # "exec" THEN f
    ELSE LET step == f.scenario.steps[f.step_idx]
         IN  IF is_skipped(step, f.vars)
             THEN Alone(AfterOnce(Log(f, "skip", None), None), served)
             ELSE IF served = <<>> THEN f
             ELSE Alone(Responded(f, ExecuteResponse(step, Mutable(f), f.scenario.config,
                                                     f.step_idx, Head(served).resp,
                                                     Head(served).duration_ms)),
                        Tail(served))

MaxEvents == 3
MaxExpectations == 3

EventTypes == {<<"a">>, <<"b">>}

EventSeqs == UNION {[1..n -> {SseEvent(ty, <<>>) : ty \in EventTypes}] : n \in 0..MaxEvents}

ExpectationSeqs ==
    UNION {[1..n -> {SseEventExpectation(ty, EmptyMap, EmptyMap) : ty \in EventTypes}] :
              n \in 1..MaxExpectations}

OrderedInit ==
    /\ input \in [events : EventSeqs, expectations : ExpectationSeqs]
    /\ stack = <<>>
    /\ sent = 0

(* Line 171: the cursor starts at 0.                                       *)
OrderedStart ==
    /\ stack = <<>>
    /\ stack' = <<[exp_idx |-> 1,
                   st |-> [errors |-> <<>>, saved_vars |-> EmptyMap, event_cursor |-> 0],
                   trace |-> <<>>]>>
    /\ UNCHANGED <<input, sent>>

(* Lines 173-305: one turn of the loop over the expectations.              *)
OrderedExpect ==
    /\ stack # <<>>
    /\ Top.exp_idx <= Len(input.expectations)
    /\ LET exp == input.expectations[Top.exp_idx]
           st == OrderedScan(input.events, exp, Top.exp_idx, EmptyMap, Top.st,
                             expand_variables(exp.event, EmptyMap))
       IN  SetTop([exp_idx |-> Top.exp_idx + 1,
                   st |-> st,
                   trace |-> Append(Top.trace,
                                    [event |-> expand_variables(exp.event, EmptyMap),
                                     before |-> Top.st.event_cursor,
                                     after |-> st.event_cursor,
                                     errors |-> Len(st.errors) - Len(Top.st.errors)])])
    /\ UNCHANGED <<input, sent>>

OrderedNext == OrderedStart \/ OrderedExpect

SpecOrdered == OrderedInit /\ [][OrderedNext]_vars

(* The 0-based indices of the events of the type at or after the cursor.   *)
Candidates(event_type, cursor) ==
    {k \in cursor..(Len(input.events) - 1) : input.events[k + 1].event_type = event_type}

(* C31: an expectation for which no event of its type is found at or      *)
(* after the cursor records an error and leaves the cursor where it was    *)
(* before the scan.                                                        *)
C31_CursorStaysWhenNotFound ==
    stack # <<>> =>
        \A j \in 1..Len(Top.trace) :
            LET e == Top.trace[j]
            IN  Candidates(e.event, e.before) = {} => (e.errors = 1 /\ e.after = e.before)

(* What the scan does instead: it leaves the cursor at the end of the      *)
(* events, and every later expectation fails as well.                      *)
CursorAtEndWhenNotFound ==
    stack # <<>> =>
        \A j \in 1..Len(Top.trace) :
            LET e == Top.trace[j]
            IN  Candidates(e.event, e.before) = {}
                => /\ e.errors = 1
                   /\ e.after = Len(input.events)
                   /\ \A k \in (j + 1)..Len(Top.trace) : Top.trace[k].errors = 1

(* An expectation failed before an event of a later expectation's type.    *)
LaterEventAfterFailure ==
    /\ stack # <<>>
    /\ \E j \in 1..Len(Top.trace) :
          /\ Candidates(Top.trace[j].event, Top.trace[j].before) = {}
          /\ \E k \in (j + 1)..Len(Top.trace) :
                Candidates(Top.trace[k].event, Top.trace[j].before) # {}

(* C32: the cursor never decreases and never exceeds the number of events; *)
(* an expectation that matches is bound to the lowest-index event of its   *)
(* type at or after the cursor and moves the cursor to that index + 1, so  *)
(* the indices of the matched events are strictly increasing.              *)
C32_CursorMonotone ==
    stack # <<>> =>
        /\ Top.st.event_cursor <= Len(input.events)
        /\ \A j \in 1..Len(Top.trace) :
              LET e == Top.trace[j]
                  found == Candidates(e.event, e.before)
              IN  /\ e.before <= e.after
                  /\ e.after <= Len(input.events)
                  /\ j > 1 => e.before = Top.trace[j - 1].after
                  /\ found # {} =>
                        /\ e.errors = 0
                        /\ e.after - 1 \in found
                        /\ \A k \in found : e.after - 1 <= k
                        /\ \A i \in 1..(j - 1) :
                              Candidates(Top.trace[i].event, Top.trace[i].before) # {}
                              => Top.trace[i].after - 1 < e.after - 1

(* Two expectations matched, the second after skipping an event of another *)
(* type.                                                                   *)
C32_Witness ==
    /\ stack # <<>>
    /\ Len(Top.trace) = 2
    /\ Top.trace[1].errors = 0
    /\ Top.trace[2].errors = 0
    /\ Top.trace[1].after = 1
    /\ Top.trace[2].after = 3

(***************************************************************************)
(* sse.rs: parse_sse_events.  The input is a body given by its lines and   *)
(* whether it ends with a line terminator; the frame holds the events.     *)
(***************************************************************************)
MaxLines == 4

BodyLines ==
    {<<"event:", " ", "a">>, <<"event:", "b">>, <<"data:", " ", "x">>, <<"data:", "y", " ">>,
     <<>>, <<":", "k">>}

LineSeqs == UNION {[1..n -> BodyLines] : n \in 0..MaxLines}

(* The text of the lines, each but the last followed by "\n", the last    *)
(* one too when `terminated`.                                              *)
RECURSIVE BodyOf(_, _)
BodyOf(lines, terminated) ==
    IF lines = <<>> THEN <<>>
    ELSE Head(lines)
         \o (IF Len(lines) > 1 \/ terminated THEN <<"\n">> ELSE <<>>)
         \o BodyOf(Tail(lines), terminated)

ParseInit ==
    /\ input \in [lines : LineSeqs, terminated : BOOLEAN]
    /\ stack = <<>>
    /\ sent = 0

(* Lines 30-81: the body is parsed.                                        *)
ParseBody ==
    /\ stack = <<>>
    /\ stack' = <<[events |-> parse_sse_events(BodyOf(input.lines, input.terminated))]>>
    /\ UNCHANGED <<input, sent>>

ParseNext == ParseBody

SpecParse == ParseInit /\ [][ParseNext]_vars

IsEventLine(line) == StartsWith(line, <<"event:">>)
IsDataLine(line) == StartsWith(line, <<"data:">>)

(* The positions of the `event:` lines, in line order.                     *)
EventLineAt == SelectSeq([i \in 1..Len(input.lines) |-> i], LAMBDA i : IsEventLine(input.lines[i]))

(* The position at which the event begun at line p is flushed: the next    *)
(* blank line or `event:` line, or the end of the input.                   *)
FlushOf(p) ==
    LET later == {q \in (p + 1)..Len(input.lines) :
                     input.lines[q] = <<>> \/ IsEventLine(input.lines[q])}
    IN  IF later = {} THEN Len(input.lines) + 1
        ELSE CHOOSE q \in later : \A r \in later : q <= r

(* The payloads of the `data:` lines between lines p and q.                *)
DataBetween(p, q) ==
    LET at == SelectSeq([i \in 1..Len(input.lines) |-> i],
                        LAMBDA i : p < i /\ i < q /\ IsDataLine(input.lines[i]))
    IN  [k \in 1..Len(at) |-> Trim(Tail(input.lines[at[k]]))]

(* C33: parse_sse_events yields exactly one event per `event:` line, in    *)
(* line order, whether the event ends at a blank line, at the next         *)
(* `event:` line or at the end of the input.                               *)
C33_OneEventPerEventLine ==
    stack # <<>> =>
        /\ Len(Top.events) = Len(EventLineAt)
        /\ \A i \in 1..Len(Top.events) :
              Top.events[i].event_type = Trim(Tail(input.lines[EventLineAt[i]]))

(* Three events, ended by the next `event:` line, by a blank line and by   *)
(* the end of an unterminated input.                                       *)
C33_Witness ==
    /\ stack # <<>>
    /\ Len(Top.events) = 3
    /\ ~input.terminated
    /\ Len(input.lines) = 4
    /\ IsEventLine(input.lines[1])
    /\ IsEventLine(input.lines[2])
    /\ input.lines[3] = <<>>
    /\ IsEventLine(input.lines[4])

(* C34: the raw data of each event is the newline-join of the `data:`      *)
(* lines between its `event:` line and its flush; a `data:` line outside   *)
(* every event is part of no event's data.                                 *)
C34_DataOfOwnLinesOnly ==
    stack # <<>> =>
        \A i \in 1..Len(Top.events) :
            i <= Len(EventLineAt) =>
                Top.events[i].data_raw
                    = JoinLines(DataBetween(EventLineAt[i], FlushOf(EventLineAt[i])))

(* Every `data:` line lies between an `event:` line and its flush.         *)
NoStrayData ==
    \A i \in 1..Len(input.lines) :
        IsDataLine(input.lines[i]) =>
            \E j \in 1..Len(EventLineAt) :
                EventLineAt[j] < i /\ i < FlushOf(EventLineAt[j])

(* Without stray `data:` lines the data of each event is that of its own   *)
(* lines.                                                                  *)
DataOfOwnLinesWithoutStray ==
    (stack # <<>> /\ NoStrayData) =>
        \A i \in 1..Len(Top.events) :
            Top.events[i].data_raw
                = JoinLines(DataBetween(EventLineAt[i], FlushOf(EventLineAt[i])))

(***************************************************************************)
(* validator.rs: validate_data_eq from the root.  The input is the two     *)
(* values and the ignore patterns; the frame holds the errors returned.    *)
(***************************************************************************)
MaxArrayLen == 2

DataLeaves == {Num(1), Num(2)}

DataKeys == {<<"a">>, <<"b">>}

DataInner ==
    DataLeaves
    \cup {Arr(q) : q \in UNION {[1..n -> DataLeaves] : n \in 0..MaxArrayLen}}
    \cup {Obj(f) : f \in UNION {[K -> DataLeaves] : K \in SUBSET DataKeys}}

DataValues == DataInner \cup {Obj(<<"a">> :> v) : v \in DataInner}

IgnoreLists ==
    {<<>>, << <<"*">> >>, << <<>> >>, << <<"a">> >>, << <<"a", ".", "*">> >>,
     << <<"a", ".", "b">> >>, << <<"*", ".", "b">> >>, << <<"0">>, <<"a", ".", "1">> >>}

DataEqInit ==
    /\ input \in [actual : DataValues, expected : DataValues, ignore_fields : IgnoreLists]
    /\ stack = <<>>
    /\ sent = 0

(* Lines 109-201: the call with an empty path prefix.                      *)
Compare ==
    /\ stack = <<>>
    /\ stack' = <<[errors |-> validate_data_eq(input.actual, input.expected,
                                               input.ignore_fields, <<>>)]>>
    /\ UNCHANGED <<input, sent>>

DataEqNext == Compare

SpecDataEq == DataEqInit /\ [][DataEqNext]_vars

(* A position is the sequence of keys and indices from the root; its path  *)
(* is their dot-join.                                                      *)
RECURSIVE PathOf(_)
PathOf(segs) ==
    IF segs = <<>> THEN <<>>
    ELSE Head(segs) \o (IF Len(segs) > 1 THEN <<".">> ELSE <<>>) \o PathOf(Tail(segs))

(* Some pattern has as many dot-segments as the position, each `*` or the  *)
(* position's segment.                                                     *)
PositionIgnored(segs, ignore_fields) ==
    \E i \in 1..Len(ignore_fields) : PatternMatches(SplitDot(ignore_fields[i]), segs)

(* The differing positions below and at segs, skipping ignored positions   *)
(* with their subtrees, as [segs, kind].                                   *)
RECURSIVE Differences(_, _, _, _)
Differences(actual, expected, ignore_fields, segs) ==
    IF PositionIgnored(segs, ignore_fields) THEN {}
    ELSE IF Tag(actual) = "obj" /\ Tag(expected) = "obj"
    THEN UNION {IF k \in DOMAIN Val(actual) /\ k \in DOMAIN Val(expected)
                THEN Differences(Val(actual)[k], Val(expected)[k], ignore_fields, Append(segs, k))
                ELSE IF PositionIgnored(Append(segs, k), ignore_fields) THEN {}
                ELSE {[segs |-> Append(segs, k),
                       kind |-> IF k \in DOMAIN Val(actual) THEN <<"': unexpected field">>
                                ELSE <<"': missing field">>]} :
                k \in DOMAIN Val(actual) \cup DOMAIN Val(expected)}
    ELSE IF Tag(actual) = "arr" /\ Tag(expected) = "arr"
    THEN (IF Len(Val(actual)) # Len(Val(expected))
          THEN {[segs |-> segs, kind |-> <<"': array length mismatch">>]} ELSE {})
         \cup UNION {Differences(Val(actual)[i], Val(expected)[i], ignore_fields,
                                 Append(segs, NumStr(i - 1))) :
                     i \in 1..(IF Len(Val(actual)) < Len(Val(expected))
                               THEN Len(Val(actual)) ELSE Len(Val(expected)))}
    ELSE IF actual # expected THEN {[segs |-> segs, kind |-> <<"': value mismatch">>]}
    ELSE {}

DifferenceText(d) == <<"data_eq '">> \o PathOf(d.segs) \o d.kind

(* The errors are those of the differences, one each.                      *)
ErrorsAre(errors, differences) ==
    /\ {errors[i] : i \in 1..Len(errors)} = {DifferenceText(d) : d \in differences}
    /\ Len(errors) = Cardinality(differences)

(* C35: a position and its subtree are skipped exactly when a pattern has  *)
(* the position's number of segments and matches it segment by segment,    *)
(* the root being the position of zero segments.                           *)
C35_IgnoredIffPatternMatchesSegments ==
    stack # <<>> =>
        ErrorsAre(Top.errors,
                  Differences(input.actual, input.expected, input.ignore_fields, <<>>))

(* The same for the inputs whose patterns do not match the empty path of   *)
(* the root.                                                               *)
IgnoredIffPatternMatchesBelowRoot ==
    (stack # <<>> /\ ~is_field_ignored(<<>>, input.ignore_fields)) =>
        ErrorsAre(Top.errors,
                  Differences(input.actual, input.expected, input.ignore_fields, <<>>))

(* The pattern `*`, or an empty pattern, skips the whole comparison.       *)
RootIgnoredByOneSegmentPattern ==
    (stack # <<>> /\ input.ignore_fields \in {<< <<"*">> >>, << <<>> >>}) => Top.errors = <<>>

(* p comes before q in the order of the visit: p is above q, or at the     *)
(* first segment they differ in p has the lesser key or index.             *)
RECURSIVE SegsBefore(_, _)
SegsBefore(p, q) ==
    IF p = <<>> THEN q # <<>>
    ELSE IF q = <<>> THEN FALSE
    ELSE IF Head(p) = Head(q) THEN SegsBefore(Tail(p), Tail(q))
    ELSE StrLess(Head(p), Head(q))

(* C36: with no ignore pattern, validate_data_eq returns no error exactly  *)
(* when the values are equal, and otherwise one error for each differing   *)
(* position (missing or unexpected field, scalar mismatch, array length    *)
(* mismatch, the common prefix of the arrays being compared all the same), *)
(* in the order of a visit with object keys sorted.                        *)
C36_AllDifferencesReported ==
    (stack # <<>> /\ input.ignore_fields = <<>>) =>
        LET differences == Differences(input.actual, input.expected, <<>>, <<>>)
            at(i) == CHOOSE d \in differences : DifferenceText(d) = Top.errors[i]
        IN  /\ Top.errors = <<>> <=> input.actual = input.expected
            /\ ErrorsAre(Top.errors, differences)
            /\ \A i \in 1..Len(Top.errors) : \A j \in (i + 1)..Len(Top.errors) :
                  SegsBefore(at(i).segs, at(j).segs)

(* Arrays of different lengths that also differ in their common prefix,    *)
(* inside an object: two errors, the length first.                         *)
C36_Witness ==
    /\ stack # <<>>
    /\ input.ignore_fields = <<>>
    /\ input.actual = Obj(<<"a">> :> Arr(<<Num(1)>>))
    /\ input.expected = Obj(<<"a">> :> Arr(<<Num(2), Num(1)>>))
    /\ Top.errors = << <<"data_eq '", "a", "': array length mismatch">>,
                       <<"data_eq '", "a", ".", "0", "': value mismatch">> >>

(* The p-th event of f is an iteration of a loop step that got a response, *)
(* after an earlier iteration of the step that got one.                    *)
LaterIteration(f, p) ==
    /\ f.hist[p].kind = "response"
    /\ IsSome(f.scenario.steps[f.hist[p].idx].loop_config)
    /\ \E q \in 1..(p - 1) : f.hist[q].kind = "response" /\ f.hist[q].idx = f.hist[p].idx

(* C37: every iteration of a loop step writes the same steps.<key>: a      *)
(* later iteration adds no key to `steps`, and steps.<key> then describes  *)
(* that iteration.                                                         *)
C37_LoopStepOneKey ==
    \A d \in 1..Len(stack) : \A p \in 1..Len(stack[d].hist) :
        LaterIteration(stack[d], p) =>
            LET f == stack[d]
                key == BaseStepKey(f.scenario.steps[f.hist[p].idx], f.hist[p].idx)
                steps == Val(f.hist[p].vars[<<"steps">>])
            IN  /\ NewKeys(f, p) = {}
                /\ key \in DOMAIN steps
                /\ Val(steps[key])[<<"success">>] = Bool(Unwrap(f.hist[p].result).success)

(* What the iterations do instead: each later iteration that gets a        *)
(* response adds a key of its own, <key>_<n>.                              *)
LaterIterationAddsKey ==
    \A d \in 1..Len(stack) : \A p \in 1..Len(stack[d].hist) :
        LaterIteration(stack[d], p) =>
            LET f == stack[d]
                key == BaseStepKey(f.scenario.steps[f.hist[p].idx], f.hist[p].idx)
            IN  /\ Cardinality(NewKeys(f, p)) = 1
                /\ \A k \in NewKeys(f, p) :
                      /\ Len(k) > Len(key)
                      /\ SubSeq(k, 1, Len(key) + 1) = key \o <<"_">>

(* C38: every StepResult has success = FALSE exactly when its error is     *)
(* Some, and has no response exactly when it is that of a send failure or  *)
(* of an include step.                                                     *)
C38_StepResultWellFormed ==
    \A d \in 1..Len(stack) :
        /\ \A p \in 1..Len(stack[d].hist) :
              LET e == stack[d].hist[p]
              IN  IsSome(e.result) =>
                      /\ ~Unwrap(e.result).success <=> IsSome(Unwrap(e.result).error)
                      /\ IsNone(Unwrap(e.result).response) <=> e.kind \in {"sendfail", "include"}
        /\ \A j \in 1..Len(stack[d].step_results) :
              ~stack[d].step_results[j].success <=> IsSome(stack[d].step_results[j].error)

(* A run holds the result of an include step whose run failed on a         *)
(* response, and then the result of a send failure.                        *)
C38_Witness ==
    /\ Len(stack) = 1
    /\ Len(Top.hist) = 2
    /\ Top.hist[1].kind = "include"
    /\ IsSome(Top.hist[1].result)
    /\ ~Unwrap(Top.hist[1].result).success
    /\ Top.hist[2].kind = "sendfail"
    /\ IsSome(Top.hist[2].result)
    /\ Len(Top.step_results) = 2

SleepsOf(f, k) == SelectSeq(f.hist, LAMBDA e : e.idx = k /\ e.kind = "sleep")

SkippedFirst(f, k) ==
    /\ k \in LoopSteps(f)
    /\ Calls(f, k) # <<>>
    /\ Calls(f, k)[1].kind = "skip"

(* C39: a loop step skipped by its condition is executed once and is not   *)
(* slept on: its history holds one call and no sleep, and once it has      *)
(* been called the driver is at a later step or the run is over.           *)
C39_SkipCostsNoRetry ==
    \A d \in 1..Len(stack) : \A k \in 1..Len(stack[d].scenario.steps) :
        SkippedFirst(stack[d], k) =>
            /\ Len(Calls(stack[d], k)) = 1
            /\ SleepsOf(stack[d], k) = <<>>
            /\ stack[d].pc # "sleep"
            /\ HasReturned(stack[d], k)

(* What the loop does with a skipped step that has no `until`: all the     *)
(* iterations and the last call are made, each one skipped, with a sleep   *)
(* between two iterations.                                                 *)
SkippedLoopRunsOut ==
    \A d \in 1..Len(stack) : \A k \in 1..Len(stack[d].scenario.steps) :
        (/\ SkippedFirst(stack[d], k)
         /\ IsNone(LoopCfg(stack[d], k).until)
         /\ HasReturned(stack[d], k)) =>
            /\ Len(Calls(stack[d], k)) = LoopCfg(stack[d], k).count + 1
            /\ \A j \in 1..Len(Calls(stack[d], k)) : Calls(stack[d], k)[j].kind = "skip"
            /\ Len(SleepsOf(stack[d], k)) =
                   IF LoopCfg(stack[d], k).count = 0 THEN 0 ELSE LoopCfg(stack[d], k).count - 1

SkippedLoopReturned ==
    \E d \in 1..Len(stack) : \E k \in 1..Len(stack[d].scenario.steps) :
        /\ SkippedFirst(stack[d], k)
        /\ HasReturned(stack[d], k)
        /\ Len(SleepsOf(stack[d], k)) >= 1

(* An iteration of a loop step with `until` is executed, sent or not, and  *)
(* the evaluation of `until` in the context it leaves fails.               *)
UntilErrorIteration ==
    /\ stack # <<>>
    /\ Top.pc = "exec"
    /\ IsSome(TopStep.loop_config)
    /\ IsSome(Unwrap(TopStep.loop_config).until)
    /\ Top.i < Unwrap(TopStep.loop_config).count
    /\ Len(stack') = Len(stack)
    /\ Len(Top.hist)' = Len(Top.hist) + 1
    /\ LastEvent'.kind \in {"response", "sendfail"}
    /\ evaluate_test(Unwrap(Unwrap(TopStep.loop_config).until), LastEvent'.vars) = "err"

(* C40: an iteration whose `until` fails to evaluate goes on like one      *)
(* whose `until` is false: the run has not returned, the step has not      *)
(* returned and nothing was pushed, a sleep or the next call follows, and  *)
(* the StepResult of the iteration is the one the step gives without a     *)
(* loop.                                                                   *)
C40_UntilErrorIsNotMet ==
    [][UntilErrorIteration =>
        /\ Top.pc' = IF Top.i + 1 < Unwrap(TopStep.loop_config).count THEN "sleep" ELSE "exec"
        /\ Top.i' = IF Top.i + 1 < Unwrap(TopStep.loop_config).count THEN Top.i ELSE Top.i + 1
        /\ Top.step_idx' = Top.step_idx
        /\ Top.returned' = Top.returned
        /\ Top.step_results' = Top.step_results
        /\ Top.scenario_success' = Top.scenario_success
        /\ IF LastEvent'.kind = "sendfail"
           THEN LastEvent'.result = Some(SendFailureResult(TopStep, Top.vars))
           ELSE \E resp \in Served(TopStep), duration_ms \in Durations :
                    LastEvent'.result =
                        ExecuteResponse([TopStep EXCEPT !.loop_config = None], Mutable(Top),
                                        Top.scenario.config, Top.step_idx, resp,
                                        duration_ms).result]_vars

(* The only iteration of a loop got a response and succeeded, its `until`  *)
(* could not be evaluated, and the loop is about to call the step again.   *)
C40_Witness ==
    /\ stack # <<>>
    /\ Top.pc = "exec"
    /\ Top.hist # <<>>
    /\ LastEvent.idx = Top.step_idx
    /\ LastEvent.kind = "response"
    /\ LastEvent.i = 0
    /\ Top.i = 1
    /\ Unwrap(LastEvent.result).success
    /\ IsNone(Unwrap(LastEvent.result).error)
    /\ IsSome(TopStep.loop_config)
    /\ IsSome(Unwrap(TopStep.loop_config).until)
    /\ evaluate_test(Unwrap(Unwrap(TopStep.loop_config).until), LastEvent.vars) = "err"

====
